---- MODULE Spec2Model ----
(***************************************************************************)
(* A model of kvdo: the recovery-journal lock counter and reaping, the      *)
(* block-map page cache with its recovery locks, dirty lists and page      *)
(* loads, the volume chapter-boundary search of the dedup index, the slab  *)
(* scrubber, the packer, the VIO pool, the block map lookup, the logical   *)
(* block locks, the reading of compressed fragments, and the resume and    *)
(* grow-physical operations.  Each subsystem has its own specifications    *)
(* (SpecLock, SpecVolume, SpecScrub, SpecCache, SpecZone, SpecDiscard,     *)
(* SpecPressure, SpecLoad, SpecPacker, SpecDrain, SpecDirty, SpecPool,     *)
(* SpecMapping, SpecLbnLock, SpecFragment, SpecResume, SpecGrow); the      *)
(* variables of the other subsystems stay at their initial values under    *)
(* them.                                                                   *)
(***************************************************************************)
EXTENDS Integers, Sequences, FiniteSets, TLC

VARIABLES
    \* ---- lock counter and recovery journal (SpecLock) ----
    counters,          \* per-zone lock counts: [zone key -> [lock -> count]]
    journal_counters,  \* the journal zone's count for each lock
    zone_counts,       \* atomic zone counts: [zone type -> [lock -> count]]
    lcState,           \* the lock counter's notification state
    launched,          \* owner callbacks launched and not yet run
    head,              \* recovery_journal: oldest active block
    tail,              \* recovery_journal: end of the active interval
    \* ---- volume chapter boundary search (SpecVolume) ----
    volume,            \* the probed volume: chapter limit, chapter contents, maxBadChapters
    search,            \* the locals, outputs and position of findVolumeChapterBoundariesImpl
    \* ---- slab scrubber (SpecScrub) ----
    scrubber,          \* struct slab_scrubber, with the position of its pending operation
    slab_state,        \* each slab's rebuild status and the journal entries applied to it
    notifier,          \* the read-only notifier: read-only flag and the error which set it
    \* ---- page cache and block-map recovery locks (SpecCache, SpecLoad) ----
    cache,             \* struct vdo_page_cache with its page_infos and their contexts
    completions,       \* the vdo_page_completion of each data_vio
    page_refs,         \* journal references held for each page: [slot -> [sequence -> count]]
    history,           \* journal blocks of each page's unwritten updates; order of use; selections, updates, end of write and releases of the last step
    \* ---- packer (SpecPacker) ----
    packer,            \* struct packer: its bins, flush generation, admin state and statistics
    data_vios,         \* the compression fields of each data_vio, and where it is on the write path
    \* ---- dirty lists (SpecDirty) ----
    dirty_lists,       \* struct dirty_lists with the periods of its pages, and what it handed to its callback
    \* ---- VIO pool (SpecPool) ----
    vio_pool,          \* struct vio_pool, the waiters of its requesters and the entry each one was given
    \* ---- block map lookup (SpecMapping) ----
    mapping,           \* a data_vio, the block map entry fetched for it and the result of set_mapped_entry
    \* ---- logical block locks (SpecLbnLock) ----
    logical_zone,      \* the zone's lbn_lock_map and the lbn_lock of each data_vio
    \* ---- reading a compressed fragment (SpecFragment) ----
    compressed_fragment, \* a mapping state, a compressed block header and the outputs of vdo_get_compressed_block_fragment
    \* ---- administrative operations (SpecResume, SpecGrow) ----
    resume,            \* the admin_completion of a resume, its sub-task and the components it has resumed
    grow               \* the admin_completion of a grow physical, the layout, the depot and the saved components

lockVars == <<counters, journal_counters, zone_counts, lcState, launched,
              head, tail>>

volumeVars == <<volume, search>>

scrubVars == <<scrubber, slab_state>>

cacheVars == <<cache, completions, page_refs, history>>

packerVars == <<packer, data_vios>>

requestVars == <<vio_pool, mapping, logical_zone>>

operationVars == <<compressed_fragment, resume, grow>>

vars == <<lockVars, volumeVars, scrubVars, cacheVars, notifier, packerVars,
          dirty_lists, requestVars, operationVars>>

\* What a step of one subsystem leaves alone: the other subsystems.
LockFrame ==
    UNCHANGED <<volumeVars, scrubVars, cacheVars, notifier, packerVars,
                dirty_lists, requestVars, operationVars>>

VolumeFrame ==
    UNCHANGED <<lockVars, scrubVars, cacheVars, notifier, packerVars,
                dirty_lists, requestVars, operationVars>>

ScrubFrame ==
    UNCHANGED <<lockVars, volumeVars, cacheVars, packerVars, dirty_lists,
                requestVars, operationVars>>

CacheFrame ==
    UNCHANGED <<lockVars, volumeVars, scrubVars, packerVars, dirty_lists,
                requestVars, operationVars>>

PackerFrame ==
    UNCHANGED <<lockVars, volumeVars, scrubVars, cacheVars, dirty_lists,
                requestVars, operationVars>>

DirtyFrame ==
    UNCHANGED <<lockVars, volumeVars, scrubVars, cacheVars, notifier,
                packerVars, requestVars, operationVars>>

\* A step of the VIO pool, of a block map lookup or of the logical block locks
\* leaves the metadata subsystems alone.
MetadataFrame ==
    UNCHANGED <<lockVars, volumeVars, scrubVars, cacheVars, notifier,
                packerVars, dirty_lists, operationVars>>

\* A step of vdo_get_compressed_block_fragment or of an administrative
\* operation leaves the metadata subsystems and the requests alone; the
\* operations which enter read-only mode use the notifier.
OperationFrame ==
    UNCHANGED <<lockVars, volumeVars, scrubVars, cacheVars, packerVars,
                dirty_lists, requestVars>>

(***************************************************************************)
(* Small helpers.                                                          *)
(***************************************************************************)
Min(S) == CHOOSE x \in S : \A y \in S : x <= y

Max(S) == CHOOSE x \in S : \A y \in S : x >= y

(***************************************************************************)
(* LOCK COUNTER AND RECOVERY JOURNAL REAPING                               *)
(***************************************************************************)
\* The number of on-disk journal blocks (one lock per block).
JournalSize == 2

\* The highest sequence number the journal hands out in the model.
MaxSeq == 3

\* The largest per-zone (and journal-zone) count of a lock in the model.
MaxCount == 2

ZoneTypes == {"logical", "physical"}

\* One logical zone and one physical zone per unit of LogicalZones/PhysicalZones.
LogicalZoneIds == {0, 1}

PhysicalZoneIds == {0}

ZoneKeys == ({"logical"} \X LogicalZoneIds) \cup ({"physical"} \X PhysicalZoneIds)

Locks == 0 .. (JournalSize - 1)

\* get_vdo_recovery_journal_block_number: the lock of a sequence number.
BlockNumber(sequence) == sequence % JournalSize

ZonesOfType(type) == {k \in ZoneKeys : k[1] = type}

LockInit ==
    /\ counters = [k \in ZoneKeys |-> [l \in Locks |-> 0]]
    /\ journal_counters = [l \in Locks |-> 0]
    /\ zone_counts = [t \in ZoneTypes |-> [l \in Locks |-> 0]]
    /\ lcState = "NOT_NOTIFYING"
    /\ launched = 0
    /\ head = 1
    /\ tail = 1

\* is_vdo_lock_locked: a journal-zone reference locks both zone types.
is_vdo_lock_locked(lock, type) ==
    \/ journal_counters[lock] # 0
    \/ zone_counts[type][lock] # 0

\* The zone counts after a zone acquires a reference: bumped on 0 -> 1 only.
AcquireZoneCount(current, zc) == IF current = 0 THEN zc + 1 ELSE zc

\* A release that decrements the zone count on every call.
ReleaseZoneCountAlways(current, zc) == zc - 1

\* The zone counts after a zone releases a reference: dropped on 1 -> 0 only.
ReleaseZoneCount(current, zc) == IF current = 1 THEN zc - 1 ELSE zc

\* A notification attempt that ignores the notification state.
AttemptNotificationAlways(st) == [state |-> "NOTIFYING", sent |-> TRUE]

\* attempt_notification: launch the owner's callback unless one is
\* outstanding or notifications are suspended.
AttemptNotification(st) ==
    IF st = "NOT_NOTIFYING"
    THEN [state |-> "NOTIFYING", sent |-> TRUE]
    ELSE [state |-> st, sent |-> FALSE]

\* acquire_vdo_lock_count_reference
Acquire(k, seq) ==
    LET lock == BlockNumber(seq)
        current == counters[k][lock]
    IN  /\ seq \in head .. (tail - 1)
        /\ current < MaxCount
        /\ counters' = [counters EXCEPT ![k][lock] = current + 1]
        /\ zone_counts' = [zone_counts EXCEPT ![k[1]][lock] =
                              AcquireZoneCount(current, @)]
        /\ UNCHANGED <<journal_counters, lcState, launched, head, tail>>
        /\ LockFrame

\* release_vdo_lock_count_reference
Release(k, seq) ==
    LET lock == BlockNumber(seq)
        current == counters[k][lock]
        zc == ReleaseZoneCount(current, zone_counts[k[1]][lock])
        note == IF current = 1 /\ zc = 0
                THEN AttemptNotification(lcState)
                ELSE [state |-> lcState, sent |-> FALSE]
    IN  /\ seq \in head .. (tail - 1)
        /\ current >= 1
        /\ counters' = [counters EXCEPT ![k][lock] = current - 1]
        /\ zone_counts' = [zone_counts EXCEPT ![k[1]][lock] = zc]
        /\ lcState' = note.state
        /\ launched' = IF note.sent THEN launched + 1 ELSE launched
        /\ UNCHANGED <<journal_counters, head, tail>>
        /\ LockFrame

\* The journal starts a new active block: a new sequence number is used and
\* the journal takes its own reference on the block's lock
\* (initialize_vdo_lock_count).
AdvanceTail ==
    /\ tail <= MaxSeq
    /\ tail - head < JournalSize
    /\ journal_counters' = [journal_counters EXCEPT ![BlockNumber(tail)] = 1]
    /\ tail' = tail + 1
    /\ UNCHANGED <<counters, zone_counts, lcState, launched, head>>
    /\ LockFrame

\* An entry is added to the active block, which the journal still holds for
\* filling: a per-entry lock is taken on it.
AddEntry ==
    LET lock == BlockNumber(tail - 1)
    IN  /\ head < tail
        /\ journal_counters[lock] >= 1
        /\ journal_counters[lock] < MaxCount
        /\ journal_counters' = [journal_counters EXCEPT ![lock] = @ + 1]
        /\ UNCHANGED <<counters, zone_counts, lcState, launched, head, tail>>
        /\ LockFrame

\* The advance of the head over the blocks that are no longer locked, up to
\* but never past the active block, ignoring the logical zones.
ReapHeadIgnoringLogical(h) ==
    LET stop == {s \in h .. (tail - 1) :
                    \/ s = tail - 1
                    \/ is_vdo_lock_locked(BlockNumber(s), "physical")}
    IN  IF stop = {} THEN h ELSE Min(stop)

\* The advance of the head: "the head is advanced until it comes to a block
\* whose counter is not 0 or until it reaches the active block".
ReapHead(h) ==
    LET stop == {s \in h .. (tail - 1) :
                    \/ s = tail - 1
                    \/ is_vdo_lock_locked(BlockNumber(s), "logical")
                    \/ is_vdo_lock_locked(BlockNumber(s), "physical")}
    IN  IF stop = {} THEN h ELSE Min(stop)

\* release_vdo_journal_zone_reference (the block committed for the last
\* time) and release_vdo_journal_zone_reference_from_other_zone (a per-entry
\* lock given up once the block map has been updated in memory).
ReleaseJournalReference(seq) ==
    LET lock == BlockNumber(seq)
    IN  /\ seq \in head .. (tail - 1)
        /\ journal_counters[lock] >= 1
        /\ journal_counters' = [journal_counters EXCEPT ![lock] = @ - 1]
        /\ UNCHANGED <<counters, zone_counts, lcState, launched, head, tail>>
        /\ LockFrame

\* The journal thread reaps on its own initiative (after a commit).
Reap ==
    /\ head' = ReapHead(head)
    /\ head' # head
    /\ UNCHANGED <<counters, journal_counters, zone_counts, lcState, launched,
                   tail>>
    /\ LockFrame

\* The owner's callback: reap, then acknowledge_vdo_lock_unlock.
NotificationCallback ==
    /\ launched > 0
    /\ launched' = launched - 1
    /\ head' = ReapHead(head)
    /\ lcState' = IF lcState = "NOTIFYING" THEN "NOT_NOTIFYING" ELSE lcState
    /\ UNCHANGED <<counters, journal_counters, zone_counts, tail>>
    /\ LockFrame

\* suspend_vdo_lock_counter: efficacious only when no notification is out.
Suspend ==
    /\ lcState = "NOT_NOTIFYING"
    /\ lcState' = "SUSPENDED"
    /\ UNCHANGED <<counters, journal_counters, zone_counts, launched, head, tail>>
    /\ LockFrame

\* resume_vdo_lock_counter
Resume ==
    /\ lcState = "SUSPENDED"
    /\ lcState' = "NOT_NOTIFYING"
    /\ UNCHANGED <<counters, journal_counters, zone_counts, launched, head, tail>>
    /\ LockFrame

NextLock ==
    \/ \E k \in ZoneKeys, seq \in 1 .. MaxSeq : Acquire(k, seq)
    \/ \E k \in ZoneKeys, seq \in 1 .. MaxSeq : Release(k, seq)
    \/ AdvanceTail
    \/ AddEntry
    \/ \E seq \in 1 .. MaxSeq : ReleaseJournalReference(seq)
    \/ Reap
    \/ NotificationCallback
    \/ Suspend
    \/ Resume

(***************************************************************************)
(* VOLUME CHAPTER BOUNDARY SEARCH (uds/volume.c)                           *)
(***************************************************************************)
\* The largest number of chapters of a volume in the model.
MaxChapters == 5

\* The largest value of the maxBadChapters parameter in the model.
MaxBadParam == 4

\* The largest virtual chapter number of the model's volumes.
MaxVcn == 3 * MaxChapters

\* The bad-chapter sentinel: larger than every virtual chapter number.  The
\* search only compares it (<=, !=) with chapter numbers.
UINT64_MAX == MaxVcn + 1

\* The virtual chapter number held by physical chapter p of a volume of n
\* chapters whose lowest chapter sits at position k, in its c-th trip around
\* the volume: consecutive, in phase (vcn % n = p), increasing circularly
\* from position k.
ChapterVcn(n, k, c, p) == IF p >= k THEN (c * n) + p ELSE ((c + 1) * n) + p

\* The chapters of a circular run of r positions starting at position b.
CircularRun(n, b, r) == {(b + i) % n : i \in 0 .. (r - 1)}

\* The volumes of n chapters: every placement of the lowest chapter, every
\* circular run of bad chapters, at most one chapter whose probe fails with
\* an error other than corruption.
VolumesOf(n) ==
    {[chapterLimit |-> n,
      vcn |-> [p \in 0 .. (n - 1) |->
                  IF p \in CircularRun(n, b, r)
                  THEN UINT64_MAX
                  ELSE ChapterVcn(n, k, c, p)],
      errors |-> e,
      maxBadChapters |-> m] :
        k \in 0 .. (n - 1), c \in {0, 1}, b \in 0 .. (n - 1), r \in 0 .. n,
        e \in {{}} \cup {{p} : p \in 0 .. (n - 1)},
        m \in 1 .. MaxBadParam}

Volumes == UNION {VolumesOf(n) : n \in 1 .. MaxChapters}

\* probeWrapper: a corrupt chapter probes as UINT64_MAX with success; any
\* other failure is returned.
probeWrapper(chapter) ==
    IF chapter \in volume.errors
    THEN [result |-> "UDS_ERROR", vcn |-> "unset"]
    ELSE [result |-> "UDS_SUCCESS", vcn |-> volume.vcn[chapter]]

\* lowestVCN and highestVCN are the caller's variables, which the search
\* does not read; assigned tells whether the search has stored into them.
SearchInit ==
    [pc |-> "start", firstVCN |-> UINT64_MAX, leftChapter |-> 0,
     rightChapter |-> 0, lowest |-> UINT64_MAX, highest |-> UINT64_MAX,
     badChapters |-> 0, result |-> "none",
     lowestVCN |-> "unset", highestVCN |-> "unset", assigned |-> FALSE]

\* Neither a volume nor a search: the state of this subsystem under the
\* other specifications.
VolumeIdle ==
    /\ volume = [chapterLimit |-> 0, vcn |-> <<>>, errors |-> {}, maxBadChapters |-> 0]
    /\ search = SearchInit

InitVolume ==
    /\ volume \in Volumes
    /\ search = SearchInit

Return(res) == [search EXCEPT !.pc = "done", !.result = res]

\* volume.c:1121-1138: the first probe and the set-up of the binary search.
ProbeFirst ==
    LET p == probeWrapper(0)
    IN  /\ search.pc = "start"
        /\ search' =
              IF p.result # "UDS_SUCCESS"
              THEN Return("UDS_SUCCESS")
              ELSE [search EXCEPT !.pc = "search", !.firstVCN = p.vcn,
                                  !.leftChapter = 0,
                                  !.rightChapter = volume.chapterLimit]
        /\ UNCHANGED volume
        /\ VolumeFrame

\* volume.c:1148-1152: one move of the binary search.
SearchMove(firstVCN, probeVCN, chapter, l, r) ==
    IF firstVCN <= probeVCN
    THEN [leftChapter |-> chapter + 1, rightChapter |-> r]
    ELSE [leftChapter |-> l, rightChapter |-> chapter]

\* volume.c:1140-1153: one iteration of the binary search.
SearchStep ==
    LET chapter == (search.leftChapter + search.rightChapter) \div 2
        p == probeWrapper(chapter)
        m == SearchMove(search.firstVCN, p.vcn, chapter,
                        search.leftChapter, search.rightChapter)
    IN  /\ search.pc = "search"
        /\ search.leftChapter < search.rightChapter
        /\ search' =
              IF p.result # "UDS_SUCCESS"
              THEN Return(p.result)
              ELSE [search EXCEPT !.leftChapter = m.leftChapter,
                                  !.rightChapter = m.rightChapter]
        /\ UNCHANGED volume
        /\ VolumeFrame

\* volume.c:1155-1176: the probe of the lowest chapter.
ProbeLowest ==
    LET l == search.leftChapter % volume.chapterLimit
        p == probeWrapper(l)
    IN  /\ search.pc = "search"
        /\ ~ (search.leftChapter < search.rightChapter)
        /\ search' =
              IF search.leftChapter # search.rightChapter
              THEN Return("UDS_ASSERTION_FAILED")
              ELSE IF p.result # "UDS_SUCCESS"
              THEN [Return(p.result) EXCEPT !.leftChapter = l]
              ELSE IF p.vcn = UINT64_MAX
              THEN [Return("UDS_ASSERTION_FAILED") EXCEPT
                       !.leftChapter = l, !.lowest = p.vcn]
              ELSE [search EXCEPT !.pc = "scan", !.leftChapter = l,
                                  !.lowest = p.vcn, !.badChapters = 0]
        /\ UNCHANGED volume
        /\ VolumeFrame

\* volume.c:1193: the test on the bad chapters passed so far, after the
\* increment.
TooManyBad(badChapters, maxBadChapters) == badChapters >= maxBadChapters

\* volume.c:1184-1201: one iteration of the circular backward scan.
ScanStep ==
    LET rc == (search.rightChapter + volume.chapterLimit - 1) % volume.chapterLimit
        p == probeWrapper(rc)
        bad == search.badChapters + 1
    IN  /\ search.pc = "scan"
        /\ search' =
              IF p.result # "UDS_SUCCESS"
              THEN [Return(p.result) EXCEPT !.rightChapter = rc]
              ELSE IF p.vcn # UINT64_MAX
              THEN [Return("UDS_SUCCESS") EXCEPT
                       !.rightChapter = rc, !.highest = p.vcn,
                       !.lowestVCN = search.lowest, !.highestVCN = p.vcn,
                       !.assigned = TRUE]
              ELSE IF TooManyBad(bad, volume.maxBadChapters)
              THEN [Return("UDS_CORRUPT_COMPONENT") EXCEPT
                       !.rightChapter = rc, !.highest = p.vcn,
                       !.badChapters = bad]
              ELSE [search EXCEPT !.rightChapter = rc, !.highest = p.vcn,
                                  !.badChapters = bad]
        /\ UNCHANGED volume
        /\ VolumeFrame

NextVolume ==
    \/ ProbeFirst
    \/ SearchStep
    \/ ProbeLowest
    \/ ScanStep

(***************************************************************************)
(* SLAB SCRUBBER (slabScrubber.c)                                          *)
(***************************************************************************)
\* The slabs of the depot.
ScrubSlabIds == {"slabA", "slabB"}

\* slab->end - slab->start: the size of a slab in blocks.
SlabBlocks == 1

\* The largest number of journal blocks between a slab journal's head and
\* its tail.
MaxJournalBlocks == 2

\* journal->entries_per_block: the number of entries a journal block holds.
EntriesPerBlock == 1

\* The slab block numbers an entry read from disk may carry: inside the
\* slab, equal to its size, beyond its size.
EntrySbns == 0 .. (SlabBlocks + 1)

SeqsUpTo(S, n) == UNION {[1 .. k -> S] : k \in 0 .. n}

\* A journal block as apply_journal_entries sees it: whether its header
\* passes the five header checks, and the slab block numbers of its entries.
ScrubJournalBlocks ==
    {[valid |-> FALSE, entries |-> <<>>]}
        \cup {[valid |-> TRUE, entries |-> e] :
                  e \in SeqsUpTo(EntrySbns, EntriesPerBlock)}

\* The journals the metadata read may return: the blocks from head to tail.
ScrubJournals == SeqsUpTo(ScrubJournalBlocks, MaxJournalBlocks) \ {<<>>}

\* The queues of slabs found unclean at load: every order of every subset.
ScrubQueues ==
    {q \in SeqsUpTo(ScrubSlabIds, Cardinality(ScrubSlabIds)) :
        \A i, j \in DOMAIN q : q[i] = q[j] => i = j}

SeqRange(q) == {q[i] : i \in DOMAIN q}

SeqWithout(q, x) == SelectSeq(q, LAMBDA y : y # x)

\* make_vdo_slab_scrubber, then the registration at load of the slabs of
\* queue q, all at normal priority.  high_priority_requested is not a field
\* of the structure: it records whether the operation last requested was
\* scrub_high_priority_vdo_slabs.
ScrubberAfterLoad(q) ==
    [scrubber |->
        [high_priority_slabs |-> <<>>,
         slabs |-> q,
         slab |-> "NULL",
         slab_count |-> Len(q),
         high_priority_only |-> FALSE,
         high_priority_requested |-> FALSE,
         admin_state |-> "SUSPENDED",
         completion |-> [result |-> "VDO_SUCCESS", complete |-> FALSE],
         pc |-> "idle"],
     slab_state |->
        [s \in ScrubSlabIds |->
            [status |-> IF s \in SeqRange(q)
                        THEN "VDO_SLAB_REQUIRES_SCRUBBING"
                        ELSE "VDO_SLAB_REBUILT",
             applied |-> <<>>]],
     notifier |-> [read_only |-> FALSE, error |-> "VDO_SUCCESS"]]

\* completion.h: set_vdo_completion_result; older errors are not masked.
set_vdo_completion_result(completion, result) ==
    IF completion.result = "VDO_SUCCESS"
    THEN [completion EXCEPT !.result = result]
    ELSE completion

\* readOnlyNotifier.h: vdo_enter_read_only_mode; a no-op if the VDO is
\* already read-only.
vdo_enter_read_only_mode(n, error_code) ==
    IF n.read_only
    THEN n
    ELSE [read_only |-> TRUE, error |-> error_code]

\* A scrubber which looks at the normal list first.
get_next_slab_normal_first(sc) ==
    IF sc.slabs # <<>> THEN Head(sc.slabs)
    ELSE IF sc.high_priority_slabs # <<>> THEN Head(sc.high_priority_slabs)
    ELSE "NULL"

\* slabScrubber.c:127-138.
get_next_slab(sc) ==
    IF sc.high_priority_slabs # <<>> THEN Head(sc.high_priority_slabs)
    ELSE IF sc.slabs # <<>> THEN Head(sc.slabs)
    ELSE "NULL"

\* slabScrubber.c:186-214: complete the scrubber's completion and note that
\* the scrubber has stopped.
finish_scrubbing(st) ==
    [st EXCEPT !.scrubber.completion.complete = TRUE,
               !.scrubber.admin_state = "SUSPENDED",
               !.scrubber.pc = "idle"]

\* slabScrubber.c:426-461.
scrub_next_slab(st) ==
    LET sc == st.scrubber
        slab == get_next_slab(sc)
    IN  IF st.notifier.read_only
        THEN finish_scrubbing(
                 [st EXCEPT !.scrubber.completion =
                     set_vdo_completion_result(@, "VDO_READ_ONLY")])
        ELSE IF \/ slab = "NULL"
                \/ (sc.high_priority_only /\ sc.high_priority_slabs = <<>>)
        THEN finish_scrubbing(
                 [st EXCEPT !.scrubber.high_priority_only = FALSE])
        ELSE IF sc.admin_state = "SUSPENDING"
        THEN [st EXCEPT !.scrubber.admin_state = "SUSPENDED",
                        !.scrubber.pc = "idle"]
        ELSE [st EXCEPT
                 !.scrubber.high_priority_slabs = SeqWithout(@, slab),
                 !.scrubber.slabs = SeqWithout(@, slab),
                 !.scrubber.slab = slab,
                 !.scrubber.pc = "scrubbing"]

\* An abort which records the error but leaves the VDO writable.
abort_scrubbing_staying_writable(st, result) ==
    scrub_next_slab(
        [st EXCEPT !.scrubber.completion =
                       set_vdo_completion_result(@, result)])

\* slabScrubber.c:239-244.
abort_scrubbing(st, result) ==
    scrub_next_slab(
        [st EXCEPT !.notifier = vdo_enter_read_only_mode(@, result),
                   !.scrubber.completion =
                       set_vdo_completion_result(@, result)])

\* slabScrubber.c:225-231.
slab_scrubbed(st) ==
    scrub_next_slab(
        [st EXCEPT !.slab_state[st.scrubber.slab].status = "VDO_SLAB_REBUILT",
                   !.scrubber.slab_count = @ - 1])

\* slabScrubber.c:266-308: apply the entries of one block in order, up to
\* the first entry which is out of bounds.
RECURSIVE apply_block_entries(_, _)
apply_block_entries(entries, applied) ==
    IF entries = <<>>
    THEN [result |-> "VDO_SUCCESS", applied |-> applied]
    ELSE IF Head(entries) > SlabBlocks
    THEN [result |-> "VDO_CORRUPT_JOURNAL", applied |-> applied]
    ELSE apply_block_entries(Tail(entries), Append(applied, Head(entries)))

\* slabScrubber.c:338-373: the loop over the blocks from head to tail.
RECURSIVE ApplyBlocks(_, _)
ApplyBlocks(blocks, applied) ==
    IF blocks = <<>>
    THEN [result |-> "VDO_SUCCESS", applied |-> applied]
    ELSE IF ~Head(blocks).valid
    THEN [result |-> "VDO_CORRUPT_JOURNAL", applied |-> applied]
    ELSE LET r == apply_block_entries(Head(blocks).entries, applied)
         IN  IF r.result # "VDO_SUCCESS"
             THEN r
             ELSE ApplyBlocks(Tail(blocks), r.applied)

\* slabScrubber.c:316-395: the whole callback.
apply_journal_entries(st, journal) ==
    LET slab == st.scrubber.slab
        r == ApplyBlocks(journal, st.slab_state[slab].applied)
        read == [st EXCEPT !.slab_state[slab].applied = r.applied]
    IN  IF r.result # "VDO_SUCCESS"
        THEN abort_scrubbing(read, r.result)
        ELSE [read EXCEPT !.scrubber.pc = "saving"]

ScrubCur == [scrubber |-> scrubber, slab_state |-> slab_state,
             notifier |-> notifier]

ScrubBecomes(st) ==
    /\ scrubber' = st.scrubber
    /\ slab_state' = st.slab_state
    /\ notifier' = st.notifier

ScrubIdle ==
    \E st \in {ScrubberAfterLoad(<<>>)} :
        /\ scrubber = st.scrubber
        /\ slab_state = st.slab_state
        /\ notifier = st.notifier

InitScrub ==
    \E q \in ScrubQueues :
        /\ scrubber = ScrubberAfterLoad(q).scrubber
        /\ slab_state = ScrubberAfterLoad(q).slab_state
        /\ notifier = ScrubberAfterLoad(q).notifier

\* slabScrubber.c:153-178 with high_priority set: a slab waiting at normal
\* priority moves to the tail of the high-priority list.  (The slab being
\* scrubbed is not registered again: what finish_scrubbing_vdo_slab does
\* with its list entry is not part of these sources.)
RegisterHighPriority(s) ==
    /\ slab_state[s].status = "VDO_SLAB_REQUIRES_SCRUBBING"
    /\ s \in SeqRange(scrubber.slabs)
    /\ scrubber' = [scrubber EXCEPT
                       !.slabs = SeqWithout(@, s),
                       !.high_priority_slabs = Append(@, s)]
    /\ slab_state' = [slab_state EXCEPT ![s].status =
                          "VDO_SLAB_REQUIRES_HIGH_PRIORITY_SCRUBBING"]
    /\ UNCHANGED notifier
    /\ ScrubFrame

\* slabScrubber.c:464-499: scrub_vdo_slabs, or scrub_high_priority_vdo_slabs
\* when high_only, which first promotes the next slab when asked to scrub at
\* least one and no slab has high priority.
ScrubSlabs(high_only, scrub_at_least_one) ==
    /\ scrubber.admin_state = "SUSPENDED"
    /\ LET next == get_next_slab(scrubber)
           promote == /\ high_only
                      /\ scrub_at_least_one
                      /\ scrubber.high_priority_slabs = <<>>
                      /\ next # "NULL"
           registered ==
               IF promote
               THEN [ScrubCur EXCEPT
                        !.scrubber.slabs = SeqWithout(@, next),
                        !.scrubber.high_priority_slabs = <<next>>,
                        !.slab_state[next].status =
                            "VDO_SLAB_REQUIRES_HIGH_PRIORITY_SCRUBBING"]
               ELSE ScrubCur
           prepared ==
               [registered EXCEPT
                   !.scrubber.admin_state = "NORMAL_OPERATION",
                   !.scrubber.high_priority_only = (@ \/ high_only),
                   !.scrubber.high_priority_requested = high_only,
                   !.scrubber.completion =
                       [result |-> "VDO_SUCCESS", complete |-> FALSE]]
       IN  IF get_next_slab(prepared.scrubber) = "NULL"
           THEN ScrubBecomes(finish_scrubbing(prepared))
           ELSE ScrubBecomes(scrub_next_slab(prepared))
    /\ ScrubFrame

\* slabScrubber.c:403-419: start_scrubbing, run when the slab is ready.
StartScrubbing ==
    /\ scrubber.pc = "scrubbing"
    /\ \E clean \in BOOLEAN :
          IF clean
          THEN ScrubBecomes(slab_scrubbed(ScrubCur))
          ELSE ScrubBecomes([ScrubCur EXCEPT !.scrubber.pc = "reading"])
    /\ ScrubFrame

\* slabScrubber.c:316-395: the journal has been read; apply it.
ApplyJournalEntries(journal) ==
    /\ scrubber.pc = "reading"
    /\ ScrubBecomes(apply_journal_entries(ScrubCur, journal))
    /\ ScrubFrame

\* slabScrubber.c:251-254: handle_scrubber_error, for a failed read of the
\* journal or a failed save of the reference counts.
HandleScrubberError ==
    /\ scrubber.pc \in {"reading", "saving"}
    /\ ScrubBecomes(abort_scrubbing(ScrubCur, "VDO_IO_ERROR"))
    /\ ScrubFrame

\* slabScrubber.c:225-231: the rebuilt reference counts have been saved.
SlabScrubbed ==
    /\ scrubber.pc = "saving"
    /\ ScrubBecomes(slab_scrubbed(ScrubCur))
    /\ ScrubFrame

\* slabScrubber.c:502-513.
StopScrubbing ==
    /\ scrubber.admin_state = "NORMAL_OPERATION"
    /\ scrubber' = [scrubber EXCEPT !.admin_state = "SUSPENDING"]
    /\ UNCHANGED <<slab_state, notifier>>
    /\ ScrubFrame

\* slabScrubber.c:516-533.
ResumeScrubbing ==
    /\ get_next_slab(scrubber) # "NULL"
    /\ scrubber.admin_state = "SUSPENDED"
    /\ ScrubBecomes(scrub_next_slab(
           [ScrubCur EXCEPT !.scrubber.admin_state = "NORMAL_OPERATION"]))
    /\ ScrubFrame

\* Another component puts the VDO into read-only mode.
EnterReadOnlyElsewhere ==
    /\ ~notifier.read_only
    /\ notifier' = vdo_enter_read_only_mode(notifier, "VDO_IO_ERROR")
    /\ UNCHANGED <<scrubber, slab_state>>
    /\ ScrubFrame

NextScrub ==
    \/ \E s \in ScrubSlabIds : RegisterHighPriority(s)
    \/ \E high_only, scrub_at_least_one \in BOOLEAN :
          ScrubSlabs(high_only, scrub_at_least_one)
    \/ StartScrubbing
    \/ \E journal \in ScrubJournals : ApplyJournalEntries(journal)
    \/ HandleScrubberError
    \/ SlabScrubbed
    \/ StopScrubbing
    \/ ResumeScrubbing
    \/ EnterReadOnlyElsewhere

(***************************************************************************)
(* VDO PAGE CACHE AND BLOCK-MAP RECOVERY LOCKS                             *)
(* (vdo-page-cache.c, blockMap.c)                                          *)
(***************************************************************************)
\* cache->page_count: the number of page slots of the cache.
PageCount == 2

\* The largest recovery journal sequence number of an update.
MaxLockSeq == 2

\* The largest number of page requests the cache counts in the model; the
\* field `requests' is stats.read_count plus stats.write_count.
MaxRequests == 3

\* The requests made of a cache whose reads may fail.
MaxLoadRequests == 3

\* The largest number of page requests counted when no I/O fails, which
\* is enough for a page to be asked for again while it is written.
MaxDiscardRequests == 4

\* The largest number of page requests counted when three data_vios ask.
MaxPressureRequests == 3

\* The largest number of page requests counted when the zone's drains and
\* requested writes are part of the behaviour.
MaxZoneRequests == 2

Slots == 1 .. PageCount

\* The block-map pages (by physical block number) the requesters ask for.
Pbns == {"pbnA", "pbnB", "pbnC"}

\* Nothing in the cache depends on which block a pbn names, so the blocks
\* are named in the order in which they are first asked for.
PbnOrder == <<"pbnA", "pbnB", "pbnC">>

PbnIndex(pbn) == CHOOSE k \in DOMAIN PbnOrder : PbnOrder[k] = pbn

\* The vdo_page_completions: one per data_vio.
Requesters == {"vioA", "vioB", "vioC"}

\* The data_vios which ask for pages where two of them are enough.
TwoRequesters == {"vioA", "vioB"}

\* Idle data_vios are alike, so of the idle ones it is the first of this
\* order which makes the next request.
RequesterOrder == <<"vioA", "vioB", "vioC">>

RequesterIndex(r) ==
    CHOOSE k \in DOMAIN RequesterOrder : RequesterOrder[k] = r

LockSeqs == 1 .. MaxLockSeq

\* vdo-page-cache.c:51-79: the page state predicates.
is_dirty(info) == info.state = "PS_DIRTY"

is_present(info) == info.state \in {"PS_RESIDENT", "PS_DIRTY"}

is_in_flight(info) == info.state \in {"PS_INCOMING", "PS_OUTGOING"}

is_incoming(info) == info.state = "PS_INCOMING"

is_outgoing(info) == info.state = "PS_OUTGOING"

is_valid(info) == is_present(info) \/ is_outgoing(info)

\* A completion which holds no page and waits for none.
IdleCompletion ==
    [phase |-> "idle", pbn |-> "NO_PAGE", writable |-> FALSE, info |-> 0]

\* vdo-page-cache.c:164-196, 219-274: the cache after make_vdo_page_cache:
\* every slot free and on the free list, nothing in flight; no page holds a
\* journal reference and no update is unwritten.  cache.zone is the block
\* map zone of the cache (blockMap.c:120-160): its admin state, the result
\* its last drain finished with, and whether its tree zone has lookups,
\* waiters or I/O outstanding.
\* No read has ended in this step.
NoLoadEnd == [slot |-> 0, result |-> "none", validity |-> "none"]

CacheAfterMake ==
    [cache |->
        [infos |-> [i \in Slots |->
                      [state |-> "PS_FREE", pbn |-> "NO_PAGE", busy |-> 0,
                       write_status |-> "WRITE_STATUS_NORMAL",
                       waiting |-> <<>>, recovery_lock |-> 0,
                       initialized |-> "AS_READ", io |-> "none"]],
         page_map |-> [pbn \in Pbns |-> 0],
         last_found |-> 0,
         lru_list |-> <<>>,
         free_list |-> [i \in Slots |-> i],
         outgoing_list |-> <<>>,
         dirty_lists |-> {},
         free_waiters |-> <<>>,
         waiter_count |-> 0,
         discard_count |-> 0,
         pages_to_flush |-> 0,
         pages_in_flush |-> 0,
         outstanding_reads |-> 0,
         outstanding_writes |-> 0,
         cache_pressure |-> 0,
         requests |-> 0,
         rebuilding |-> FALSE,
         zone |-> [state |-> "VDO_ADMIN_STATE_NORMAL_OPERATION",
                   result |-> "VDO_SUCCESS",
                   tree_zone_active |-> FALSE]],
     comps |-> [r \in Requesters |-> IdleCompletion],
     refs |-> [i \in Slots |-> [s \in LockSeqs |-> 0]],
     hist |-> [unwritten |-> [i \in Slots |-> <<>>],
               released |-> {},
               write_end |-> <<>>,
               discard_end |-> 0,
               asked |-> 0,
               recency |-> <<>>,
               selections |-> <<>>,
               updates |-> <<>>,
               write_failed |-> FALSE,
               drain_error |-> FALSE,
               load_end |-> NoLoadEnd,
               load_error |-> {}],
     notifier |-> [read_only |-> FALSE, error |-> "VDO_SUCCESS"]]

\* The page is accessed: it becomes the most recently used one.
Touch(recency, i) == Append(SeqWithout(recency, i), i)

\* vdo-page-cache.c:450-457.
update_lru(st, i) ==
    [st EXCEPT !.cache.lru_list = Append(SeqWithout(@, i), i),
               !.hist.recency = Touch(@, i)]

\* list_del_init(&info->state_entry): off the free list, the outgoing list
\* and the dirty lists.
RemoveStateEntry(c, i) ==
    [c EXCEPT !.free_list = SeqWithout(@, i),
              !.outgoing_list = SeqWithout(@, i),
              !.dirty_lists = @ \ {i}]

\* vdo-page-cache.c:466-493.
set_info_state(st, i, new_state) ==
    IF new_state = st.cache.infos[i].state
    THEN st
    ELSE LET c == [st.cache EXCEPT !.infos[i].state = new_state]
         IN  [st EXCEPT !.cache =
                 CASE new_state \in {"PS_FREE", "PS_FAILED"} ->
                          [RemoveStateEntry(c, i) EXCEPT
                              !.free_list = Append(@, i)]
                   [] new_state = "PS_OUTGOING" ->
                          [RemoveStateEntry(c, i) EXCEPT
                              !.outgoing_list = Append(@, i)]
                   [] new_state = "PS_DIRTY" -> c
                   [] OTHER -> RemoveStateEntry(c, i)]

\* vdo-page-cache.c:502-526: the entry of the PBN the slot had is removed
\* from the page map (whichever slot it names), and the new PBN is put in
\* the map with this slot, replacing any entry the PBN had (int_map_put
\* with update).
set_info_pbn(st, i, pbn) ==
    LET old == st.cache.infos[i].pbn
        removed == IF old = "NO_PAGE" THEN st.cache.page_map
                   ELSE [st.cache.page_map EXCEPT ![old] = 0]
        put == IF pbn = "NO_PAGE" THEN removed
               ELSE [removed EXCEPT ![pbn] = i]
    IN  [st EXCEPT !.cache.page_map = put, !.cache.infos[i].pbn = pbn]

\* vdo-page-cache.c:531-549: the result is the assertion's when the page
\* is busy or has waiters.  The buffer of a free page holds no page: what
\* it held is forgotten.
reset_page_info(st, i) ==
    LET info == st.cache.infos[i]
    IN  IF info.busy # 0 \/ info.waiting # <<>>
        THEN [result |-> "UDS_ASSERTION_FAILED", st |-> st]
        ELSE [result |-> "VDO_SUCCESS",
              st |-> LET freed == set_info_state(
                             [set_info_pbn(st, i, "NO_PAGE") EXCEPT
                                 !.cache.infos[i].initialized = "AS_READ"],
                             i, "PS_FREE")
                     IN  [freed EXCEPT !.cache.lru_list = SeqWithout(@, i)]]

\* vdo-page-cache.c:580-587: the page found last when it has the PBN,
\* otherwise what the page map has for the PBN (0 is NULL); the caller
\* keeps the result as the page found last.
find_page(c, pbn) ==
    IF c.last_found # 0 /\ c.infos[c.last_found].pbn = pbn
    THEN c.last_found
    ELSE c.page_map[pbn]

\* A selection which ignores whether the page is busy.
select_lru_page_ignoring_busy(c) ==
    LET ok == SelectSeq(c.lru_list, LAMBDA i : ~is_in_flight(c.infos[i]))
    IN  IF ok = <<>> THEN 0 ELSE Head(ok)

\* vdo-page-cache.c:605-618: the first page of the LRU list which is
\* neither busy nor in flight; 0 is NULL.
select_lru_page(c) ==
    LET ok == SelectSeq(c.lru_list,
                        LAMBDA i : c.infos[i].busy = 0
                                   /\ ~is_in_flight(c.infos[i]))
    IN  IF ok = <<>> THEN 0 ELSE Head(ok)

\* vdo-page-cache.c:665-684: the completion gets the page, or VDO_BAD_PAGE
\* when the page is not in a usable state.
complete_with_page(st, i, r) ==
    LET info == st.cache.infos[i]
        available == IF st.comps[r].writable THEN is_present(info)
                                             ELSE is_valid(info)
    IN  IF available
        THEN [st EXCEPT !.comps[r].phase = "ready", !.comps[r].info = i]
        ELSE [st EXCEPT !.comps[r] = IdleCompletion]

\* vdo-page-cache.c:692-711: every waiter of the queue gets the error.
FailCompletions(st, queue) ==
    [st EXCEPT !.comps = [r \in Requesters |->
                             IF r \in SeqRange(queue)
                             THEN IdleCompletion
                             ELSE @[r]]]

RECURSIVE CompleteWaitersWithPage(_, _, _)
CompleteWaitersWithPage(st, i, queue) ==
    IF queue = <<>>
    THEN st
    ELSE CompleteWaitersWithPage(complete_with_page(st, i, Head(queue)),
                                 i, Tail(queue))

\* vdo-page-cache.c:738-755.
distribute_page_over_queue(st, i) ==
    LET queue == st.cache.infos[i].waiting
        busied == [update_lru(st, i) EXCEPT
                      !.cache.infos[i].busy = @ + Len(queue),
                      !.cache.infos[i].waiting = <<>>]
    IN  CompleteWaitersWithPage(busied, i, queue)

\* vdo-page-cache.c:767-791.
set_persistent_error(st, result) ==
    LET entered ==
            IF result # "VDO_READ_ONLY" /\ ~st.notifier.read_only
            THEN [st EXCEPT !.notifier =
                     vdo_enter_read_only_mode(@, result)]
            ELSE st
        all_waiters ==
            SeqRange(st.cache.free_waiters)
                \cup UNION {SeqRange(st.cache.infos[i].waiting) : i \in Slots}
    IN  [entered EXCEPT
            !.cache.free_waiters = <<>>,
            !.cache.waiter_count = 0,
            !.cache.infos = [i \in Slots |-> [@[i] EXCEPT !.waiting = <<>>]],
            !.comps = [r \in Requesters |->
                          IF r \in all_waiters THEN IdleCompletion ELSE @[r]]]

\* The admin states of a zone: the drain operations and the quiescent state
\* each of them ends in.
DrainOperations ==
    {"VDO_ADMIN_STATE_SUSPENDING", "VDO_ADMIN_STATE_SAVING"}

is_vdo_state_draining(state) == state \in DrainOperations

is_vdo_state_suspending(state) == state = "VDO_ADMIN_STATE_SUSPENDING"

QuiescentStateOf(operation) ==
    IF operation = "VDO_ADMIN_STATE_SUSPENDING"
    THEN "VDO_ADMIN_STATE_SUSPENDED"
    ELSE "VDO_ADMIN_STATE_SAVED"

is_vdo_state_quiescent(state) ==
    state \in {QuiescentStateOf(op) : op \in DrainOperations}

\* vdo-page-cache.c:893-897.
is_vdo_page_cache_active(c) ==
    c.outstanding_reads # 0 \/ c.outstanding_writes # 0

\* A check which takes the drain to be complete whatever is outstanding.
vdo_check_for_drain_complete_at_once(st) ==
    IF is_vdo_state_draining(st.cache.zone.state)
    THEN [st EXCEPT
             !.cache.zone.state = QuiescentStateOf(@),
             !.cache.zone.result = IF st.notifier.read_only
                                   THEN "VDO_READ_ONLY" ELSE "VDO_SUCCESS"]
    ELSE st

\* blockMap.c:428-437.
vdo_check_for_drain_complete(st) ==
    IF /\ is_vdo_state_draining(st.cache.zone.state)
       /\ ~st.cache.zone.tree_zone_active
       /\ ~is_vdo_page_cache_active(st.cache)
    THEN [st EXCEPT
             !.cache.zone.state = QuiescentStateOf(@),
             !.cache.zone.result = IF st.notifier.read_only
                                   THEN "VDO_READ_ONLY" ELSE "VDO_SUCCESS"]
    ELSE st

\* vdo-page-cache.c:905-922.
page_is_loaded(st, i) ==
    LET distributed ==
            distribute_page_over_queue(
                set_info_state(st, i, "PS_RESIDENT"), i)
    IN  vdo_check_for_drain_complete(
            [distributed EXCEPT !.cache.outstanding_reads = @ - 1,
                                !.cache.infos[i].io = "none"])

\* vdo-page-cache.c:708-711: every completion of the queue is finished
\* with the result; load_error records who was given which error.
distribute_error_over_queue(st, result, queue) ==
    [FailCompletions(st, queue) EXCEPT
        !.hist.load_error = @ \cup {<<r, result>> : r \in SeqRange(queue)}]

\* A handle_load_error which leaves the failed page in its slot.
handle_load_error_keeping_page(st, i, result) ==
    LET entered == [st EXCEPT !.notifier =
                        vdo_enter_read_only_mode(@, result)]
        failed == set_info_state(entered, i, "PS_FAILED")
        told == [distribute_error_over_queue(
                     failed, result, failed.cache.infos[i].waiting)
                    EXCEPT !.cache.infos[i].waiting = <<>>]
    IN  vdo_check_for_drain_complete(
            [told EXCEPT
                !.cache.outstanding_reads = @ - 1,
                !.cache.infos[i].io = "none"])

\* vdo-page-cache.c:929-951.
handle_load_error(st, i, result) ==
    LET entered == [st EXCEPT !.notifier =
                        vdo_enter_read_only_mode(@, result)]
        failed == set_info_state(entered, i, "PS_FAILED")
        told == [distribute_error_over_queue(
                     failed, result, failed.cache.infos[i].waiting)
                    EXCEPT !.cache.infos[i].waiting = <<>>]
    IN  vdo_check_for_drain_complete(
            [reset_page_info(told, i).st EXCEPT
                !.cache.outstanding_reads = @ - 1,
                !.cache.infos[i].io = "none"])

\* What validate_vdo_block_map_page makes of a block: a page of this block
\* map at this pbn, a block which is no initialized page of this block map
\* (a zero-filled block is one), or the page of another pbn.
PageValidities ==
    {"VDO_BLOCK_MAP_PAGE_VALID", "VDO_BLOCK_MAP_PAGE_INVALID",
     "VDO_BLOCK_MAP_PAGE_BAD"}

\* blockMap.c:61-86: the read hook; the page holds no recovery lock.  A
\* block which is not a valid page is formatted as a page not yet
\* initialized: whether the page read is initialized shows only when the
\* write hook looks, so it is decided there (`read_initialized'), except
\* that a buffer which was zero-filled stays a page without entries.
validate_page_on_read(st, i, validity) ==
    IF validity = "VDO_BLOCK_MAP_PAGE_BAD"
    THEN [result |-> "VDO_BAD_PAGE", st |-> st]
    ELSE [result |-> "VDO_SUCCESS",
          st |-> [st EXCEPT
                     !.cache.infos[i].initialized =
                         IF @ = "ZEROED" THEN @ ELSE "AS_READ",
                     !.cache.infos[i].recovery_lock = 0]]

\* vdo-page-cache.c:978-997: the buffer is zero-filled and goes through the
\* read hook, for which a zero-filled block is a page to format, to
\* page_is_loaded.
handle_rebuild_read_error(st, i) ==
    LET zeroed == [st EXCEPT !.cache.infos[i].initialized = "ZEROED"]
        hooked == validate_page_on_read(zeroed, i,
                                        "VDO_BLOCK_MAP_PAGE_INVALID")
    IN  page_is_loaded(hooked.st, i)

\* The error handler launch_page_load gave the read
\* (vdo-page-cache.c:1028-1033).
ReadErrorHandler(st, i, result) ==
    IF st.cache.rebuilding
    THEN handle_rebuild_read_error(st, i)
    ELSE handle_load_error(st, i, result)

\* vdo-page-cache.c:959-971: the read hook, then page_is_loaded or the
\* error handler of the read.
run_read_hook(st, i, validity) ==
    LET hooked == validate_page_on_read(st, i, validity)
    IN  IF hooked.result = "VDO_SUCCESS"
        THEN page_is_loaded(hooked.st, i)
        ELSE ReadErrorHandler(hooked.st, i, hooked.result)

\* vdo-page-cache.c:1008-1036.
launch_page_load(st, i, pbn) ==
    set_info_state(
        [set_info_pbn(st, i, pbn) EXCEPT
            !.cache.infos[i].io = "reading",
            !.cache.outstanding_reads = @ + 1],
        i, "PS_INCOMING")

\* A save which starts a flush although one is under way.
save_pages_during_flush(st) ==
    IF st.cache.pages_to_flush = 0
    THEN st
    ELSE [st EXCEPT !.cache.pages_in_flush = @ + st.cache.pages_to_flush,
                    !.cache.pages_to_flush = 0]

\* vdo-page-cache.c:1058-1082: start a flush for the pages scheduled so
\* far, unless one is under way.
save_pages(st) ==
    IF st.cache.pages_in_flush > 0 \/ st.cache.pages_to_flush = 0
    THEN st
    ELSE [st EXCEPT !.cache.pages_in_flush = st.cache.pages_to_flush,
                    !.cache.pages_to_flush = 0]

\* A scheduling which does not look at the busy count.
schedule_page_save_ignoring_busy(st, i) ==
    set_info_state(
        [st EXCEPT !.cache.pages_to_flush = @ + 1,
                   !.cache.outstanding_writes = @ + 1],
        i, "PS_OUTGOING")

\* vdo-page-cache.c:1090-1100.
schedule_page_save(st, i) ==
    IF st.cache.infos[i].busy > 0
    THEN [st EXCEPT !.cache.infos[i].write_status = "WRITE_STATUS_DEFERRED"]
    ELSE set_info_state(
             [st EXCEPT !.cache.pages_to_flush = @ + 1,
                        !.cache.outstanding_writes = @ + 1],
             i, "PS_OUTGOING")

\* vdo-page-cache.c:1121-1125.
launch_page_save(st, i) == save_pages(schedule_page_save(st, i))

\* vdo-page-cache.c:1102-1113: the expired pages leave the dirty lists and
\* are scheduled, then a save is started.
RECURSIVE ScheduleExpired(_, _)
ScheduleExpired(st, expired) ==
    IF expired = {}
    THEN st
    ELSE LET i == Min(expired)
         IN  ScheduleExpired(
                 schedule_page_save(
                     [st EXCEPT !.cache.dirty_lists = @ \ {i}], i),
                 expired \ {i})

\* A variant of write_dirty_pages_callback which takes the expired pages off
\* the dirty lists and schedules none.
write_dirty_pages_callback_scheduling_none(st, expired) ==
    [st EXCEPT !.cache.dirty_lists = @ \ expired]

write_dirty_pages_callback(st, expired) ==
    save_pages(ScheduleExpired(st, expired))

\* vdo-page-cache.c:1147-1185.
allocate_free_page(st, i) ==
    IF st.cache.free_waiters = <<>>
    THEN [st EXCEPT !.cache.cache_pressure = 0]
    ELSE LET reset == reset_page_info(st, i)
         IN  IF reset.result # "VDO_SUCCESS"
             THEN set_persistent_error(reset.st, reset.result)
             ELSE LET rst == reset.st
                      pbn == rst.comps[Head(rst.cache.free_waiters)].pbn
                      matching == SelectSeq(rst.cache.free_waiters,
                                      LAMBDA r : rst.comps[r].pbn = pbn)
                      moved == [rst EXCEPT
                                   !.cache.free_waiters =
                                       SelectSeq(@, LAMBDA r :
                                           rst.comps[r].pbn # pbn),
                                   !.cache.infos[i].waiting = @ \o matching,
                                   !.cache.waiter_count = @ - Len(matching),
                                   !.comps = [r \in Requesters |->
                                       IF r \in SeqRange(matching)
                                       THEN [@[r] EXCEPT
                                                !.phase = "waiting_page"]
                                       ELSE @[r]]]
                  IN  launch_page_load(moved, i, pbn)

\* The pages a discard may take, least recently used first: the pages of
\* the cache (resident or dirty) which no completion holds.
Discardable(st) ==
    SelectSeq(st.hist.recency,
              LAMBDA i : /\ st.cache.infos[i].state
                                \in {"PS_RESIDENT", "PS_DIRTY"}
                         /\ st.cache.infos[i].busy = 0)

\* vdo-page-cache.c:1200-1220 (report_cache_pressure: 363-376).  The call
\* is recorded: the page selected, the least recently used page a discard
\* could take (0 if none) and how many it could take, whether cache
\* pressure was reported and whether the free waiters were left as they
\* were.
discard_a_page(st) ==
    LET info == select_lru_page(st.cache)
        after ==
            IF info = 0
            THEN [st EXCEPT !.cache.cache_pressure = @ + 1]
            ELSE IF ~is_dirty(st.cache.infos[info])
            THEN allocate_free_page(st, info)
            ELSE launch_page_save(
                     [st EXCEPT
                         !.cache.discard_count = @ + 1,
                         !.cache.infos[info].write_status =
                             "WRITE_STATUS_DISCARD"],
                     info)
        could_take == Discardable(st)
    IN  [after EXCEPT !.hist.selections = Append(@,
            [victim |-> info,
             candidates |-> Len(could_take),
             least_recent |-> IF could_take = <<>> THEN 0
                              ELSE Head(could_take),
             pressure_reported |->
                 after.cache.cache_pressure = st.cache.cache_pressure + 1,
             waiters_kept |->
                 after.cache.free_waiters = st.cache.free_waiters])]

\* vdo-page-cache.c:1229-1242.
discard_page_for_completion(st, r) ==
    discard_a_page(
        [st EXCEPT !.cache.waiter_count = @ + 1,
                   !.cache.free_waiters = Append(@, r),
                   !.comps[r].phase = "waiting_free"])

\* vdo-page-cache.c:1249-1254.
discard_page_if_needed(st) ==
    IF st.cache.waiter_count > st.cache.discard_count
    THEN discard_a_page(st)
    ELSE st

\* vdo-page-cache.c:1276-1285: the write is no longer outstanding.
write_has_finished(st, i) ==
    [st EXCEPT !.cache.outstanding_writes = @ - 1,
               !.cache.infos[i].write_status = "WRITE_STATUS_NORMAL",
               !.cache.infos[i].io = "none"]

\* vdo-page-cache.c:1292-1319: the page is dirty again and keeps its
\* recovery lock.
handle_page_write_error(st, i, result) ==
    LET was_discard ==
            st.cache.infos[i].write_status = "WRITE_STATUS_DISCARD"
        failed == set_persistent_error(
                      set_info_state(st, i, "PS_DIRTY"), result)
        finished == write_has_finished(failed, i)
    IN  vdo_check_for_drain_complete(
            IF was_discard THEN finished
            ELSE discard_page_if_needed(finished))

\* blockMap.c:100 (mark_vdo_block_map_page_initialized has nothing to do):
\* the page is initialized already when the write hook has marked it, or
\* when it was read so.
is_initialized(info, read_initialized) ==
    \/ info.initialized = "MARKED"
    \/ info.initialized = "AS_READ" /\ read_initialized

\* An end of write which drops the page's journal reference even when the
\* page has to be written again.
handle_page_write_always_releasing(st, i, read_initialized) ==
    LET lock == st.cache.infos[i].recovery_lock
    IN  [rewrite |-> ~is_initialized(st.cache.infos[i], read_initialized),
         st |-> [st EXCEPT
                    !.cache.infos[i].initialized = "MARKED",
                    !.refs[i] = [s \in LockSeqs |->
                                    IF s = lock THEN @[s] - 1 ELSE @[s]],
                    !.cache.infos[i].recovery_lock = 0,
                    !.hist.unwritten[i] = <<>>]]

\* blockMap.c:93-112: the write hook.  A page written for the first time
\* is marked initialized and must be written again; otherwise the page's
\* reference on its journal block is released.
handle_page_write(st, i, read_initialized) ==
    LET lock == st.cache.infos[i].recovery_lock
        marked == [st EXCEPT !.cache.infos[i].initialized = "MARKED"]
    IN  IF ~is_initialized(st.cache.infos[i], read_initialized)
        THEN [rewrite |-> TRUE, st |-> marked]
        ELSE [rewrite |-> FALSE,
              st |-> [marked EXCEPT
                         !.refs[i] = [s \in LockSeqs |->
                                         IF s = lock THEN @[s] - 1 ELSE @[s]],
                         !.cache.infos[i].recovery_lock = 0,
                         !.hist.unwritten[i] = <<>>]]

\* An end of write which gives a page written for discard to the free
\* waiters whoever holds it or waits for it.
page_is_written_out_reusing_discarded(st, i, read_initialized) ==
    LET hook == handle_page_write(st, i, read_initialized)
        hst == hook.st
        was_discard ==
            hst.cache.infos[i].write_status = "WRITE_STATUS_DISCARD"
        resident ==
            set_info_state(write_has_finished(hst, i), i, "PS_RESIDENT")
    IN  IF hook.rewrite
        THEN hst
        ELSE vdo_check_for_drain_complete(
                 IF ~was_discard
                 THEN discard_page_if_needed(
                          distribute_page_over_queue(resident, i))
                 ELSE allocate_free_page(
                          [resident EXCEPT !.cache.discard_count = @ - 1,
                                           !.cache.infos[i].busy = 0,
                                           !.cache.infos[i].waiting = <<>>],
                          i))

\* vdo-page-cache.c:1327-1369.
page_is_written_out(st, i, read_initialized) ==
    LET hook == handle_page_write(st, i, read_initialized)
        hst == hook.st
        was_discard ==
            hst.cache.infos[i].write_status = "WRITE_STATUS_DISCARD"
        reclaimed == \/ ~was_discard
                     \/ hst.cache.infos[i].busy > 0
                     \/ hst.cache.infos[i].waiting # <<>>
        distributed ==
            distribute_page_over_queue(
                set_info_state(write_has_finished(hst, i), i, "PS_RESIDENT"),
                i)
        counted == IF was_discard
                   THEN [distributed EXCEPT !.cache.discard_count = @ - 1]
                   ELSE distributed
    IN  IF hook.rewrite
        THEN hst
        ELSE vdo_check_for_drain_complete(
                 IF reclaimed
                 THEN discard_page_if_needed(counted)
                 ELSE allocate_free_page(counted, i))

\* vdo-page-cache.c:1377-1420: the flush has finished; write the pages it
\* covered, or fail them at once when the VDO is read-only.
RECURSIVE WriteFlushedPages(_, _)
WriteFlushedPages(st, n) ==
    IF n = 0
    THEN st
    ELSE LET i == Head(st.cache.outgoing_list)
             popped == [st EXCEPT !.cache.outgoing_list = Tail(@)]
         IN  WriteFlushedPages(
                 IF popped.notifier.read_only
                 THEN handle_page_write_error(popped, i, "VDO_READ_ONLY")
                 ELSE [popped EXCEPT !.cache.infos[i].io = "writing"],
                 n - 1)

write_pages(st) ==
    LET has_unflushed_pages == st.cache.pages_to_flush > 0
        written == WriteFlushedPages(
                       [st EXCEPT !.cache.pages_in_flush = 0],
                       st.cache.pages_in_flush)
    IN  IF has_unflushed_pages THEN save_pages(written) ELSE written

\* vdo-page-cache.c:1045-1051.
handle_flush_error(st, result) ==
    write_pages(set_persistent_error(st, result))

\* vdo-page-cache.c:1432-1470, for a completion which holds a page.
release_vdo_page_completion(st, r) ==
    LET i == st.comps[r].info
        released == [st EXCEPT !.cache.infos[i].busy = @ - 1,
                               !.comps[r] = IdleCompletion]
    IN  IF released.cache.infos[i].busy # 0
        THEN released
        ELSE discard_page_if_needed(
                 IF released.cache.infos[i].write_status
                        = "WRITE_STATUS_DEFERRED"
                 THEN launch_page_save(
                          [released EXCEPT !.cache.infos[i].write_status =
                              "WRITE_STATUS_NORMAL"],
                          i)
                 ELSE released)

\* A request which takes a page on the outgoing list like any valid page.
get_vdo_page_taking_outgoing(st, r, pbn, writable) ==
    LET asked == [st EXCEPT
                     !.comps[r] = [phase |-> "asking", pbn |-> pbn,
                                   writable |-> writable, info |-> 0],
                     !.cache.requests = @ + 1,
                     !.cache.last_found = find_page(st.cache, pbn)]
        found == find_page(st.cache, pbn)
        info == st.cache.infos[found]
        free == IF st.cache.free_list = <<>> THEN 0
                ELSE Head(st.cache.free_list)
    IN  IF writable /\ st.notifier.read_only
        THEN st
        ELSE IF found # 0 /\ (\/ info.write_status = "WRITE_STATUS_DEFERRED"
                             \/ is_incoming(info))
        THEN [asked EXCEPT !.cache.infos[found].waiting = Append(@, r),
                           !.comps[r].phase = "waiting_page"]
        ELSE IF found # 0 /\ is_valid(info)
        THEN [update_lru(asked, found) EXCEPT
                 !.cache.infos[found].busy = @ + 1,
                 !.comps[r].phase = "ready",
                 !.comps[r].info = found]
        ELSE IF free # 0
        THEN launch_page_load(
                 [asked EXCEPT
                     !.cache.free_list = Tail(@),
                     !.cache.infos[free].waiting = Append(@, r),
                     !.comps[r].phase = "waiting_page"],
                 free, pbn)
        ELSE discard_page_for_completion(asked, r)

\* vdo-page-cache.c:1507-1574.
get_vdo_page(st, r, pbn, writable) ==
    LET asked == [st EXCEPT
                     !.comps[r] = [phase |-> "asking", pbn |-> pbn,
                                   writable |-> writable, info |-> 0],
                     !.cache.requests = @ + 1,
                     !.cache.last_found = find_page(st.cache, pbn)]
        found == find_page(st.cache, pbn)
        info == st.cache.infos[found]
        free == IF st.cache.free_list = <<>> THEN 0
                ELSE Head(st.cache.free_list)
    IN  IF writable /\ st.notifier.read_only
        THEN st
        ELSE IF found # 0 /\ (\/ info.write_status = "WRITE_STATUS_DEFERRED"
                             \/ is_incoming(info)
                             \/ (is_outgoing(info) /\ writable))
        THEN [asked EXCEPT !.cache.infos[found].waiting = Append(@, r),
                           !.comps[r].phase = "waiting_page"]
        ELSE IF found # 0 /\ is_valid(info)
        THEN complete_with_page(
                 [update_lru(asked, found) EXCEPT
                     !.cache.infos[found].busy = @ + 1],
                 found, r)
        ELSE IF free # 0
        THEN launch_page_load(
                 [asked EXCEPT
                     !.cache.free_list = Tail(@),
                     !.cache.infos[free].waiting = Append(@, r),
                     !.comps[r].phase = "waiting_page"],
                 free, pbn)
        ELSE discard_page_for_completion(asked, r)

\* The page has an update of journal block new_locked which is not written
\* out (the blocks are noted in the order of their first update).
NoteUpdate(st, i, new_locked) ==
    [st EXCEPT !.hist.unwritten[i] =
                   IF new_locked \in SeqRange(@) THEN @
                   ELSE Append(@, new_locked)]

\* An update which takes a reference only when the page holds none.
update_vdo_block_map_page_never_switching(st, i, new_locked) ==
    LET old_locked == st.cache.infos[i].recovery_lock
        noted == NoteUpdate(st, i, new_locked)
    IN  IF old_locked = 0
        THEN [noted EXCEPT !.refs[i][new_locked] = @ + 1,
                           !.cache.infos[i].recovery_lock = new_locked]
        ELSE noted

\* An update which takes a reference when the page holds none or the
\* update's journal block is newer than the one held.
update_vdo_block_map_page_newer_first(st, i, new_locked) ==
    LET old_locked == st.cache.infos[i].recovery_lock
        noted == NoteUpdate(st, i, new_locked)
    IN  IF old_locked = 0 \/ old_locked < new_locked
        THEN [noted EXCEPT
                 !.refs[i] = [s \in LockSeqs |->
                     @[s] + (IF s = new_locked THEN 1 ELSE 0)
                          - (IF s = old_locked THEN 1 ELSE 0)],
                 !.cache.infos[i].recovery_lock = new_locked]
        ELSE noted

\* blockMap.c:692-735: the entry is encoded in the page, which now has an
\* unwritten update from journal block new_locked; the page's reference
\* moves to that block when it holds none or holds a newer one.
update_vdo_block_map_page(st, i, new_locked) ==
    LET old_locked == st.cache.infos[i].recovery_lock
        noted == NoteUpdate(st, i, new_locked)
    IN  IF old_locked = 0 \/ old_locked > new_locked
        THEN [noted EXCEPT
                 !.refs[i] = [s \in LockSeqs |->
                     @[s] + (IF s = new_locked THEN 1 ELSE 0)
                          - (IF s = old_locked THEN 1 ELSE 0)],
                 !.cache.infos[i].recovery_lock = new_locked]
        ELSE noted

\* vdo-page-cache.c:1585-1603, with dirty-lists.h:30-32: the page is dirty
\* and on the dirty lists; a page added with an age beyond the maximum is
\* expired at once.
mark_completed_vdo_page_dirty(st, i, expire_now) ==
    LET listed == [set_info_state(st, i, "PS_DIRTY") EXCEPT
                      !.cache = [RemoveStateEntry(@, i) EXCEPT
                                    !.dirty_lists = @ \cup {i}]]
    IN  IF expire_now
        THEN write_dirty_pages_callback(listed, {i})
        ELSE listed

\* vdo-page-cache.c:1610-1623, for a writable completion which holds a
\* page: the page is dirty and is saved as soon as nothing holds it.
request_vdo_page_write(st, r) ==
    LET i == st.comps[r].info
    IN  launch_page_save(set_info_state(st, i, "PS_DIRTY"), i)

\* vdo-page-cache.c:1684-1694; flush_vdo_dirty_lists (dirty-lists.h) expires
\* every element of the dirty lists.
drain_vdo_page_cache(st) ==
    IF ~is_vdo_state_suspending(st.cache.zone.state)
    THEN save_pages(write_dirty_pages_callback(st, st.cache.dirty_lists))
    ELSE st

\* blockMap.c:444-451, after start_vdo_draining has put the zone into the
\* state of the operation.  vdo_drain_zone_trees leaves the tree zone
\* active when it has work outstanding.
initiate_drain(st) ==
    vdo_check_for_drain_complete(drain_vdo_page_cache(st))

\* An error has been met: it is noted when the zone is draining.
NoteError(st) ==
    [st EXCEPT !.hist.drain_error =
                   @ \/ is_vdo_state_draining(st.cache.zone.state)]

\* The number of journal block references page i holds.
RECURSIVE SumOver(_, _)
SumOver(f, S) ==
    IF S = {} THEN 0
    ELSE LET s == Min(S) IN f[s] + SumOver(f, S \ {s})

PageRefTotal(refs, i) == SumOver(refs[i], LockSeqs)

CacheCur == [cache |-> cache, comps |-> completions, refs |-> page_refs,
             hist |-> history, notifier |-> notifier]

\* The pages which hold fewer journal block references in st than now, or
\* whose recovery lock is cleared in st.
ReleasedIn(st) ==
    {i \in Slots :
        \/ /\ st.refs[i] # page_refs[i]
           /\ PageRefTotal(st.refs, i) < PageRefTotal(page_refs, i)
        \/ /\ cache.infos[i].recovery_lock # 0
           /\ st.cache.infos[i].recovery_lock = 0}

\* The step ends in state st; the records of the selections and of the
\* updates are the step's, and so is the record of the pages released,
\* which is kept with the end of write of the step, if any.
CacheBecomes(st) ==
    /\ cache' = st.cache
    /\ completions' = st.comps
    /\ page_refs' = st.refs
    /\ history' =
           [st.hist EXCEPT
               !.released = ReleasedIn(st),
               !.write_end = IF ReleasedIn(st) = {} THEN <<>> ELSE @]
    /\ notifier' = st.notifier

CacheStart == [CacheCur EXCEPT !.hist.selections = <<>>,
                              !.hist.updates = <<>>,
                              !.hist.write_end = <<>>,
                              !.hist.discard_end = 0,
                              !.hist.load_end = NoLoadEnd,
                              !.hist.load_error = {}]

\* The write of page i ends in this step: whether it succeeded and whether
\* the page was initialized are recorded, and the page when its write ends
\* successfully and was for discard.
WriteEnds(i, successful, read_initialized) ==
    [CacheStart EXCEPT
        !.hist.write_end =
            <<[slot |-> i, successful |-> successful,
               initialized |->
                   is_initialized(cache.infos[i], read_initialized)]>>,
        !.hist.discard_end =
            IF /\ successful
               /\ cache.infos[i].write_status = "WRITE_STATUS_DISCARD"
            THEN i ELSE 0]

CacheIdle ==
    /\ cache = CacheAfterMake.cache
    /\ completions = CacheAfterMake.comps
    /\ page_refs = CacheAfterMake.refs
    /\ history = CacheAfterMake.hist

InitCache == CacheIdle

\* blockMap.c:591-609: setup_mapped_block; a data_vio asks for the page at
\* pbn.  A draining zone turns the data_vio away, and no data_vio arrives
\* at a quiescent zone, whose device is suspended.
GetPageCounted(r, pbn, writable, limit) ==
    /\ cache.zone.state = "VDO_ADMIN_STATE_NORMAL_OPERATION"
    /\ completions[r].phase = "idle"
    /\ \A q \in Requesters :
           completions[q].phase = "idle"
           => RequesterIndex(r) <= RequesterIndex(q)
    /\ cache.requests < limit
    /\ PbnIndex(pbn) <= history.asked + 1
    /\ CacheBecomes(
           get_vdo_page(
               [CacheStart EXCEPT !.hist.asked = Max({@, PbnIndex(pbn)})],
               r, pbn, writable))
    /\ CacheFrame

GetPage(r, pbn, writable) == GetPageCounted(r, pbn, writable, MaxRequests)

\* blockMap.c:740-770: put_mapping_in_fetched_page, the callback of a
\* writable completion: update the page for an entry of journal block
\* new_locked, mark it dirty, release the completion.  The update is
\* recorded: the block of the lock held before, the block of the update,
\* whether the page acquired a reference on the update's block.
PutMapping(r, new_locked, expire_now) ==
    /\ completions[r].phase = "ready"
    /\ completions[r].writable
    /\ LET i == completions[r].info
           updated == update_vdo_block_map_page(CacheStart, i, new_locked)
           recorded ==
               [updated EXCEPT !.hist.updates = Append(@,
                   [old_locked |-> cache.infos[i].recovery_lock,
                    new_locked |-> new_locked,
                    acquired |-> updated.refs[i][new_locked]
                                     > page_refs[i][new_locked]])]
       IN  CacheBecomes(
               release_vdo_page_completion(
                   mark_completed_vdo_page_dirty(recorded, i, expire_now),
                   r))
    /\ CacheFrame

\* blockMap.c:664-689: get_mapping_from_fetched_page, the callback of a
\* read-only completion: read the entry, release the completion.
GetMapping(r) ==
    /\ completions[r].phase = "ready"
    /\ ~completions[r].writable
    /\ CacheBecomes(release_vdo_page_completion(CacheStart, r))
    /\ CacheFrame

\* The read of a page finishes: the read hook, then page_is_loaded.
PageRead(i) ==
    /\ cache.infos[i].io = "reading"
    /\ CacheBecomes(run_read_hook(CacheStart, i,
                                  "VDO_BLOCK_MAP_PAGE_VALID"))
    /\ CacheFrame

\* The read of a page fails, or the page read is another block's
\* (VDO_BAD_PAGE from the read hook): handle_load_error either way.
PageReadError(i) ==
    /\ cache.infos[i].io = "reading"
    /\ CacheBecomes(
           handle_load_error(NoteError(CacheStart), i, "VDO_IO_ERROR"))
    /\ CacheFrame

\* The read of a page ends with a result, and a page read well is of some
\* validity: the callback or the error handler launch_page_load gave the
\* vio runs.  load_end records the end.
ReadEnds(i, result, validity) ==
    /\ cache.infos[i].io = "reading"
    /\ LET ended == [CacheStart EXCEPT
                        !.hist.load_end = [slot |-> i, result |-> result,
                                           validity |->
                                               IF result = "VDO_SUCCESS"
                                               THEN validity
                                               ELSE "none"]]
       IN  CacheBecomes(
               IF result = "VDO_SUCCESS"
               THEN run_read_hook(ended, i, validity)
               ELSE ReadErrorHandler(NoteError(ended), i, result))
    /\ CacheFrame

\* The flush before a batch of page writes finishes.
FlushDone ==
    /\ cache.pages_in_flush > 0
    /\ CacheBecomes(write_pages(CacheStart))
    /\ CacheFrame

\* The flush fails.
FlushError ==
    /\ cache.pages_in_flush > 0
    /\ CacheBecomes(
           handle_flush_error(NoteError(CacheStart), "VDO_IO_ERROR"))
    /\ CacheFrame

\* The write of a page finishes; read_initialized tells whether the page
\* was read from the disk initialized.
PageWritten(i, read_initialized) ==
    /\ cache.infos[i].io = "writing"
    /\ CacheBecomes(
           page_is_written_out(WriteEnds(i, TRUE, read_initialized),
                               i, read_initialized))
    /\ CacheFrame

\* The write of a page fails.
PageWriteError(i) ==
    /\ cache.infos[i].io = "writing"
    /\ CacheBecomes(
           handle_page_write_error(
               [NoteError(WriteEnds(i, FALSE, FALSE)) EXCEPT
                   !.hist.write_failed = TRUE],
               i, "VDO_IO_ERROR"))
    /\ CacheFrame

\* The era advances and the pages of `expired' are too old.
AdvancePeriod(expired) ==
    /\ expired # {}
    /\ expired \subseteq cache.dirty_lists
    /\ CacheBecomes(write_dirty_pages_callback(CacheStart, expired))
    /\ CacheFrame

\* request_vdo_page_write by the holder of a writable completion.
RequestPageWrite(r) ==
    /\ completions[r].phase = "ready"
    /\ completions[r].writable
    /\ CacheBecomes(request_vdo_page_write(CacheStart, r))
    /\ CacheFrame

\* blockMap.c:458-467: drain_zone; the drain of the zone starts, with the
\* tree zone active or not.
DrainZone(operation, tree_zone_active) ==
    /\ cache.zone.state = "VDO_ADMIN_STATE_NORMAL_OPERATION"
    /\ CacheBecomes(
           initiate_drain(
               [CacheStart EXCEPT
                   !.cache.zone.state = operation,
                   !.cache.zone.tree_zone_active = tree_zone_active,
                   !.hist.drain_error = FALSE]))
    /\ CacheFrame

\* The tree zone has finished its outstanding work and checks whether the
\* drain is complete.
TreeZoneDone ==
    /\ cache.zone.tree_zone_active
    /\ CacheBecomes(
           vdo_check_for_drain_complete(
               [CacheStart EXCEPT !.cache.zone.tree_zone_active = FALSE]))
    /\ CacheFrame

\* blockMap.c:483-489: resume_block_map_zone; the result of the drain has
\* been taken by its parent.
ResumeZone ==
    /\ is_vdo_state_quiescent(cache.zone.state)
    /\ CacheBecomes(
           [CacheStart EXCEPT
               !.cache.zone.state = "VDO_ADMIN_STATE_NORMAL_OPERATION",
               !.cache.zone.result = "VDO_SUCCESS",
               !.hist.drain_error = FALSE])
    /\ CacheFrame

\* The steps of the cache other than the arrival of a request.
CacheSteps ==
    \/ \E r \in Requesters, new_locked \in LockSeqs, expire_now \in BOOLEAN :
          PutMapping(r, new_locked, expire_now)
    \/ \E r \in Requesters : GetMapping(r)
    \/ \E i \in Slots : PageRead(i)
    \/ \E i \in Slots : PageReadError(i)
    \/ FlushDone
    \/ FlushError
    \/ \E i \in Slots, read_initialized \in BOOLEAN :
          PageWritten(i, read_initialized)
    \/ \E i \in Slots : PageWriteError(i)
    \/ \E expired \in SUBSET Slots : AdvancePeriod(expired)

NextCache ==
    \/ \E r \in TwoRequesters, pbn \in Pbns, writable \in BOOLEAN :
          GetPage(r, pbn, writable)
    \/ CacheSteps

\* A request which arrives while the zone is administered: fewer requests
\* are counted there.
GetPageInZone(r, pbn, writable) ==
    /\ cache.requests < MaxZoneRequests
    /\ GetPage(r, pbn, writable)

\* The cache with the administrative operations of its zone, and with
\* holders which ask for a page to be written.
NextZone ==
    \/ \E r \in TwoRequesters, pbn \in Pbns, writable \in BOOLEAN :
          GetPageInZone(r, pbn, writable)
    \/ CacheSteps
    \/ \E r \in Requesters : RequestPageWrite(r)
    \/ \E operation \in DrainOperations, tree_zone_active \in BOOLEAN :
          DrainZone(operation, tree_zone_active)
    \/ TreeZoneDone
    \/ ResumeZone

\* The cache when every flush and write succeeds, a read may fail, and no
\* era advance expires a page: more requests are counted there.
NextDiscard ==
    \/ \E r \in TwoRequesters, pbn \in Pbns, writable \in BOOLEAN :
          GetPageCounted(r, pbn, writable, MaxDiscardRequests)
    \/ \E r \in Requesters, new_locked \in LockSeqs :
          PutMapping(r, new_locked, FALSE)
    \/ \E r \in Requesters : GetMapping(r)
    \/ \E i \in Slots : PageRead(i)
    \/ \E i \in Slots : PageReadError(i)
    \/ FlushDone
    \/ \E i \in Slots, read_initialized \in BOOLEAN :
          PageWritten(i, read_initialized)

\* The cache under pressure: three data_vios ask for pages of a cache of
\* two slots, to read them, and a read may fail.  No page becomes dirty, so
\* nothing is flushed or written.
NextPressure ==
    \/ \E r \in Requesters, pbn \in Pbns :
          GetPageCounted(r, pbn, FALSE, MaxPressureRequests)
    \/ \E r \in Requesters : GetMapping(r)
    \/ \E i \in Slots : PageRead(i)
    \/ \E i \in Slots : PageReadError(i)

(***************************************************************************)
(* PACKER                                                                  *)
(***************************************************************************)
\* packer.size: the number of input bins.
PackerBins == 2

\* The data_vios which are sent to the packer.
DataVios == 1 .. 3

\* packer.bin_data_size: the bytes of fragments one compressed block holds.
BinDataSize == 4

\* The largest compressed size of a data_vio sent to the packer.
MaxFragmentSize == 3

\* The number of fragments one compressed block holds.
VDO_MAX_COMPRESSION_SLOTS == 3

\* The highest flush generation of the model.
MaxGeneration == 1

VDO_MAPPING_STATE_UNCOMPRESSED == 1

VDO_MAPPING_STATE_COMPRESSED_BASE == 2

\* The input bins, and packer.canceled_bin.
BinIds == 1 .. PackerBins

CanceledBin == PackerBins + 1

\* NULL, as a bin and as a data_vio.
NULL == 0

NoBin == NULL

NoDataVio == NULL

vdo_get_state_for_slot(slot_number) ==
    slot_number + VDO_MAPPING_STATE_COMPRESSED_BASE

vdo_is_state_compressed(mapping_state) ==
    mapping_state > VDO_MAPPING_STATE_UNCOMPRESSED

\* make_bin: an empty bin with all of its space free.
EmptyBin == [incoming |-> <<>>, free_space |-> BinDataSize]

\* vdo_make_packer.  bins holds the input bins and the canceled bin; order is
\* the list of input bins, kept in ascending order of free space.  written
\* is not a field of the structure: it records, for each batch which
\* write_bin took from a bin in the last step, its agent and its size.
\* refused is not one either: it is the data_vio which vdo_attempt_packing
\* turned away in the last step because of the state of the packer or of the
\* flush generation of the data_vio.  released is the third of these: the
\* data_vios which release_compressed_write_waiter sent on in the last step,
\* in the order of the calls.
PackerAfterMake ==
    [bins |-> [b \in BinIds \cup {CanceledBin} |-> EmptyBin],
     order |-> [i \in 1 .. PackerBins |-> i],
     bin_data_size |-> BinDataSize,
     max_slots |-> VDO_MAX_COMPRESSION_SLOTS,
     flush_generation |-> 0,
     state |-> "VDO_ADMIN_STATE_NORMAL_OPERATION",
     statistics |-> [compressed_fragments_written |-> 0,
                     compressed_blocks_written |-> 0,
                     compressed_fragments_in_packer |-> 0],
     written |-> <<>>,
     refused |-> NoDataVio,
     released |-> <<>>]

\* A compressed block: the sizes of its header and, for each byte of its data
\* area, the data_vio whose fragment was copied there.
EmptyBlock ==
    [sizes |-> [k \in 0 .. (VDO_MAX_COMPRESSION_SLOTS - 1) |-> 0],
     data |-> [o \in 0 .. (BinDataSize - 1) |-> NoDataVio]]

\* A data_vio which has compressed its data and allocated a block for its
\* write, before vdo_attempt_packing.  where is its place on the write path:
\* allocation is the block it allocated, which names the PBN lock it holds on
\* it; shared_lock is the block whose PBN lock it has been given a share of.
\* "compressing" (on its way to the packer), "packer" (in a bin), "batch" (a
\* client of a compressed write), "writing" (the agent of a submitted
\* compressed write), "written" (the agent, its bio ended), "failed" (the
\* agent, continued with an error), "continued" (after
\* continue_write_after_compression).
DataVioBeforePacking(d) ==
    [state |-> [status |-> "VIO_COMPRESSING", may_not_compress |-> FALSE],
     compression |-> [size |-> 0, slot |-> 0, bin |-> NoBin,
                      next_in_batch |-> NoDataVio],
     allocation |-> d,
     shared_lock |-> NULL,
     new_mapped |-> [pbn |-> d, state |-> VDO_MAPPING_STATE_UNCOMPRESSED],
     scratch_block |-> EmptyBlock,
     error_handler |-> "none",
     result |-> "VDO_SUCCESS",
     remover_launched |-> FALSE,
     where |-> "compressing"]

PackerStart ==
    [packer |-> [packer EXCEPT !.written = <<>>, !.refused = NoDataVio,
                               !.released = <<>>],
     data_vios |-> data_vios,
     notifier |-> notifier]

PackerCommit(st) ==
    /\ packer' = st.packer
    /\ data_vios' = st.data_vios
    /\ notifier' = st.notifier
    /\ PackerFrame

slots_used(st, b) == Len(st.packer.bins[b].incoming)

\* set_vio_compression_done
set_vio_compression_done(st, d) ==
    [st EXCEPT !.data_vios[d].state.status = "VIO_POST_PACKER"]

\* may_vio_block_in_packer: the data_vio enters VIO_PACKING unless its
\* compression has been canceled.
may_vio_block_in_packer(st, d) ==
    IF st.data_vios[d].state.may_not_compress
    THEN [st |-> set_vio_compression_done(st, d), result |-> FALSE]
    ELSE [st |-> [st EXCEPT !.data_vios[d].state.status = "VIO_PACKING"],
          result |-> TRUE]

\* may_write_compressed_data_vio: the data_vio leaves the packer; it may be
\* written compressed unless its compression has been canceled.
may_write_compressed_data_vio(st, d) ==
    [st |-> set_vio_compression_done(st, d),
     result |-> ~st.data_vios[d].state.may_not_compress]

\* cancel_vio_compression: true when the data_vio is in the packer and this
\* call is the one which canceled it.
cancel_vio_compression(st, d) ==
    LET state == st.data_vios[d].state
    IN  IF state.may_not_compress \/ state.status = "VIO_POST_PACKER"
        THEN [st |-> st, result |-> FALSE]
        ELSE [st |-> [st EXCEPT !.data_vios[d].state.may_not_compress = TRUE],
              result |-> state.status = "VIO_PACKING"]

\* continue_write_after_compression: the data_vio goes on with its write,
\* with the mapping it has now.
continue_write_after_compression(st, d) ==
    [st EXCEPT !.data_vios[d].where = "continued"]

abort_packing(st, d) ==
    LET done == set_vio_compression_done(st, d)
        counted ==
            [done EXCEPT
                !.packer.statistics.compressed_fragments_in_packer = @ - 1]
    IN  continue_write_after_compression(counted, d)

\* vdo_share_compressed_write_lock: the data_vio takes a share of the PBN
\* lock of the block the batch was written to.
vdo_share_compressed_write_lock(st, d, allocation_lock) ==
    [st EXCEPT !.data_vios[d].shared_lock = allocation_lock]

\* release_compressed_write_waiter, for a write to the allocation of agent.
release_compressed_write_waiter(st, d, agent) ==
    LET mapped ==
            [st EXCEPT !.data_vios[d].new_mapped =
                [pbn |-> st.data_vios[agent].allocation,
                 state |-> vdo_get_state_for_slot(
                               st.data_vios[d].compression.slot)]]
        shared == vdo_share_compressed_write_lock(
                      mapped, d, st.data_vios[agent].allocation)
    IN  continue_write_after_compression(
            [shared EXCEPT !.packer.released = Append(@, d)], d)

\* The clients of a batch, from compression.next_in_batch of d on.
RECURSIVE BatchFrom(_, _)
BatchFrom(st, d) ==
    IF d = NoDataVio
    THEN <<>>
    ELSE <<d>> \o BatchFrom(st, st.data_vios[d].compression.next_in_batch)

Clients(st, agent) ==
    BatchFrom(st, st.data_vios[agent].compression.next_in_batch)

RECURSIVE ReleaseAll(_, _, _)
ReleaseAll(st, batch, agent) ==
    IF batch = <<>>
    THEN st
    ELSE ReleaseAll(release_compressed_write_waiter(st, Head(batch), agent),
                    Tail(batch), agent)

\* A variant of finish_compressed_write which releases the agent first.
finish_compressed_write_agent_first(st, agent) ==
    LET cleared == [st EXCEPT !.data_vios[agent].error_handler = "none"]
        first == release_compressed_write_waiter(cleared, agent, agent)
    IN  ReleaseAll(first, Clients(st, agent), agent)

\* finish_compressed_write: the clients first, then the agent.
finish_compressed_write(st, agent) ==
    LET released == ReleaseAll(st, Clients(st, agent), agent)
        cleared == [released EXCEPT !.data_vios[agent].error_handler = "none"]
    IN  release_compressed_write_waiter(cleared, agent, agent)

RECURSIVE ContinueAll(_, _)
ContinueAll(st, batch) ==
    IF batch = <<>>
    THEN st
    ELSE ContinueAll(continue_write_after_compression(st, Head(batch)),
                     Tail(batch))

\* handle_compressed_write_error: the batch is released from the packer and
\* the error is forgotten.
handle_compressed_write_error(st, agent) ==
    LET continued == ContinueAll(st, Clients(st, agent))
        reset == [continued EXCEPT
                     !.data_vios[agent].result = "VDO_SUCCESS",
                     !.data_vios[agent].error_handler = "none"]
    IN  continue_write_after_compression(reset, agent)

add_to_bin(st, b, d) ==
    [st EXCEPT !.data_vios[d].compression.bin = b,
               !.data_vios[d].compression.slot = slots_used(st, b),
               !.packer.bins[b].incoming = Append(@, d)]

\* remove_from_bin: [st, data_vio], the data_vio being NoDataVio when the bin
\* holds no data_vio whose compression has not been canceled.
RECURSIVE remove_from_bin(_, _)
remove_from_bin(st, b) ==
    LET incoming == st.packer.bins[b].incoming
    IN  IF Len(incoming) = 0
        THEN [st |-> [st EXCEPT !.packer.bins[b].free_space =
                                     st.packer.bin_data_size],
              data_vio |-> NoDataVio]
        ELSE LET d == incoming[Len(incoming)]
                 popped == [st EXCEPT !.packer.bins[b].incoming =
                               SubSeq(incoming, 1, Len(incoming) - 1)]
                 may == may_write_compressed_data_vio(popped, d)
             IN  IF may.result
                 THEN [st |-> [may.st EXCEPT
                                  !.data_vios[d].compression.bin = NoBin],
                       data_vio |-> d]
                 ELSE remove_from_bin(add_to_bin(may.st, CanceledBin, d), b)

\* vdo_initialize_compressed_block
vdo_initialize_compressed_block(block, size) ==
    [block EXCEPT !.sizes[0] = size]

\* vdo_put_compressed_block_fragment, the copied bytes being those of d.
vdo_put_compressed_block_fragment(block, fragment, offset, d, size) ==
    [block EXCEPT
        !.sizes[fragment] = size,
        !.data = [o \in DOMAIN block.data |->
                     IF o >= offset /\ o < offset + size
                     THEN d ELSE block.data[o]]]

\* A variant of pack_fragment which gives every client the slot of the agent.
pack_fragment_in_slot_0(st, agent, d, offset, slot) ==
    LET to_pack == st.data_vios[d].compression
    IN  [st |-> [st EXCEPT
                    !.data_vios[d].compression.next_in_batch =
                        st.data_vios[agent].compression.next_in_batch,
                    !.data_vios[agent].compression.next_in_batch = d,
                    !.data_vios[d].compression.slot = 0,
                    !.data_vios[d].where = "batch"],
         offset |-> offset + to_pack.size]

\* pack_fragment: [st, offset], the offset being the new amount of space used.
pack_fragment(st, agent, d, offset, slot) ==
    LET to_pack == st.data_vios[d].compression
    IN  [st |-> [st EXCEPT
                    !.data_vios[d].compression.next_in_batch =
                        st.data_vios[agent].compression.next_in_batch,
                    !.data_vios[agent].compression.next_in_batch = d,
                    !.data_vios[d].compression.slot = slot,
                    !.data_vios[d].where = "batch",
                    !.data_vios[agent].scratch_block =
                        vdo_put_compressed_block_fragment(
                            @, slot, offset, d, to_pack.size)],
         offset |-> offset + to_pack.size]

\* The loop of write_bin over the clients: [st, slot], the slot being the
\* number of data_vios of the batch.
RECURSIVE PackClients(_, _, _, _, _)
PackClients(st, b, agent, offset, slot) ==
    LET removed == remove_from_bin(st, b)
    IN  IF removed.data_vio = NoDataVio
        THEN [st |-> removed.st, slot |-> slot]
        ELSE LET packed == pack_fragment(removed.st, agent, removed.data_vio,
                                         offset, slot)
             IN  PackClients(packed.st, b, agent, packed.offset, slot + 1)

\* continue_data_vio of the agent of a compressed write: its callback
\* (finish_compressed_write) or its error handler will run.
continue_data_vio(st, agent, result) ==
    [st EXCEPT !.data_vios[agent].result = result,
               !.data_vios[agent].where =
                   IF result = "VDO_SUCCESS" THEN "written" ELSE "failed"]

\* A variant of write_bin which writes a batch of one.
write_bin_of_any_size(st, b) ==
    LET first == remove_from_bin(st, b)
        agent == first.data_vio
    IN  IF agent = NoDataVio
        THEN first.st
        ELSE LET size == first.st.data_vios[agent].compression.size
                 started ==
                     [first.st EXCEPT
                         !.data_vios[agent].compression.slot = 0,
                         !.data_vios[agent].scratch_block =
                             vdo_initialize_compressed_block(@, size)]
                 packed == PackClients(started, b, agent, size, 1)
             IN  [packed.st EXCEPT
                     !.packer.written =
                         Append(@, [agent |-> agent, size |-> packed.slot]),
                     !.data_vios[agent].error_handler =
                         "handle_compressed_write_error",
                     !.packer.statistics.compressed_blocks_written = @ + 1,
                     !.data_vios[agent].where = "writing"]

write_bin(st, b) ==
    LET first == remove_from_bin(st, b)
        agent == first.data_vio
    IN  IF agent = NoDataVio
        THEN first.st
        ELSE LET size == first.st.data_vios[agent].compression.size
                 started ==
                     [first.st EXCEPT
                         !.data_vios[agent].compression.slot = 0,
                         !.data_vios[agent].scratch_block =
                             vdo_initialize_compressed_block(@, size)]
                 slot == PackClients(started, b, agent, size, 1).slot
                 packed ==
                     [PackClients(started, b, agent, size, 1).st EXCEPT
                         !.packer.written =
                             Append(@, [agent |-> agent, size |-> slot])]
                 handled ==
                     [packed EXCEPT
                         !.data_vios[agent].error_handler =
                             "handle_compressed_write_error"]
             IN  IF slot = 1
                 THEN abort_packing(packed, agent)
                 ELSE IF handled.notifier.read_only
                 THEN continue_data_vio(handled, agent, "VDO_READ_ONLY")
                 ELSE [handled EXCEPT
                          !.packer.statistics.compressed_fragments_in_packer =
                              @ - slot,
                          !.packer.statistics.compressed_fragments_written =
                              @ + slot,
                          !.packer.statistics.compressed_blocks_written =
                              @ + 1,
                          !.data_vios[agent].where = "writing"]

RemoveFromSeq(q, x) == SelectSeq(q, LAMBDA y : y # x)

\* A variant of insert_in_sorted_list which moves the bin to the tail of the
\* list whatever its free space.
insert_in_sorted_list_at_tail(st, b) ==
    [st EXCEPT !.packer.order = RemoveFromSeq(st.packer.order, b) \o <<b>>]

\* insert_in_sorted_list: the bin moves before the first bin of the list with
\* more free space, or to the tail of the list.
insert_in_sorted_list(st, b) ==
    LET order == st.packer.order
        others == RemoveFromSeq(order, b)
        more == {i \in DOMAIN others :
                    st.packer.bins[others[i]].free_space
                        > st.packer.bins[b].free_space}
        at == IF more = {} THEN Len(others) + 1 ELSE Min(more)
    IN  [st EXCEPT !.packer.order =
            SubSeq(others, 1, at - 1) \o <<b>>
                \o SubSeq(others, at, Len(others))]

\* A variant of add_data_vio_to_packer_bin which does not start a new batch
\* when the bin has no room for the data_vio.
add_data_vio_to_packer_bin_without_room(st, b, d) ==
    LET size == st.data_vios[d].compression.size
        added == [add_to_bin(st, b, d) EXCEPT
                     !.packer.bins[b].free_space = @ - size,
                     !.data_vios[d].where = "packer"]
        filled == IF \/ slots_used(added, b) = added.packer.max_slots
                     \/ added.packer.bins[b].free_space = 0
                  THEN write_bin(added, b)
                  ELSE added
    IN  insert_in_sorted_list(filled, b)

add_data_vio_to_packer_bin(st, b, d) ==
    LET size == st.data_vios[d].compression.size
        made == IF st.packer.bins[b].free_space < size
                THEN write_bin(st, b)
                ELSE st
        added == [add_to_bin(made, b, d) EXCEPT
                     !.packer.bins[b].free_space = @ - size,
                     !.data_vios[d].where = "packer"]
        filled == IF \/ slots_used(added, b) = added.packer.max_slots
                     \/ added.packer.bins[b].free_space = 0
                  THEN write_bin(added, b)
                  ELSE added
    IN  insert_in_sorted_list(filled, b)

\* select_bin: first best fit, or the fullest bin when writing it out makes
\* room, or NoBin.
select_bin(st, d) ==
    LET order == st.packer.order
        size == st.data_vios[d].compression.size
        fullest_bin == order[1]
        fits == {i \in DOMAIN order :
                    st.packer.bins[order[i]].free_space >= size}
    IN  IF fits # {}
        THEN order[Min(fits)]
        ELSE IF size >= st.packer.bin_data_size
                            - st.packer.bins[fullest_bin].free_space
        THEN NoBin
        ELSE fullest_bin

vdo_is_state_normal(state) == state = "VDO_ADMIN_STATE_NORMAL_OPERATION"

\* A variant of vdo_attempt_packing which packs a data_vio of any flush
\* generation.
vdo_attempt_packing_of_any_generation(st, d, flush_generation) ==
    LET counted ==
            [st EXCEPT
                !.packer.statistics.compressed_fragments_in_packer = @ + 1]
        bin == select_bin(counted, d)
        may == may_vio_block_in_packer(counted, d)
    IN  IF ~vdo_is_state_normal(counted.packer.state)
        THEN abort_packing([counted EXCEPT !.packer.refused = d], d)
        ELSE IF bin = NoBin
        THEN abort_packing(counted, d)
        ELSE IF ~may.result
        THEN abort_packing(may.st, d)
        ELSE add_data_vio_to_packer_bin(may.st, bin, d)

\* vdo_attempt_packing of a data_vio whose flush_generation is given.
vdo_attempt_packing(st, d, flush_generation) ==
    LET counted ==
            [st EXCEPT
                !.packer.statistics.compressed_fragments_in_packer = @ + 1]
        bin == select_bin(counted, d)
        may == may_vio_block_in_packer(counted, d)
    IN  IF \/ ~vdo_is_state_normal(counted.packer.state)
           \/ flush_generation < counted.packer.flush_generation
        THEN abort_packing([counted EXCEPT !.packer.refused = d], d)
        ELSE IF bin = NoBin
        THEN abort_packing(counted, d)
        ELSE IF ~may.result
        THEN abort_packing(may.st, d)
        ELSE add_data_vio_to_packer_bin(may.st, bin, d)

\* A variant of check_for_drain_complete which does not look at the canceled
\* bin.
check_for_drain_complete_at_once(st) ==
    IF is_vdo_state_draining(st.packer.state)
    THEN [st EXCEPT !.packer.state = QuiescentStateOf(@)]
    ELSE st

\* check_for_drain_complete of the packer.
check_for_drain_complete(st) ==
    IF /\ is_vdo_state_draining(st.packer.state)
       /\ slots_used(st, CanceledBin) = 0
    THEN [st EXCEPT !.packer.state = QuiescentStateOf(@)]
    ELSE st

RECURSIVE WriteBins(_, _)
WriteBins(st, bins) ==
    IF bins = <<>>
    THEN st
    ELSE WriteBins(write_bin(st, Head(bins)), Tail(bins))

write_all_non_empty_bins(st) ==
    check_for_drain_complete(WriteBins(st, st.packer.order))

vdo_flush_packer(st) ==
    IF vdo_is_state_normal(st.packer.state)
    THEN write_all_non_empty_bins(st)
    ELSE st

vdo_remove_lock_holder_from_packer(st, lock_holder) ==
    LET bin == st.data_vios[lock_holder].compression.bin
        slot == st.data_vios[lock_holder].compression.slot
        incoming == st.packer.bins[bin].incoming
        used == Len(incoming) - 1
        moved == IF slot < used THEN incoming[used + 1] ELSE NoDataVio
        taken ==
            [st EXCEPT
                !.packer.bins[bin].incoming =
                    [i \in 1 .. used |->
                        IF i = slot + 1 THEN moved ELSE incoming[i]],
                !.data_vios =
                    [d \in DataVios |->
                        IF d = lock_holder
                        THEN [@[d] EXCEPT !.compression.bin = NoBin,
                                          !.compression.slot = 0,
                                          !.remover_launched = FALSE]
                        ELSE IF d = moved
                        THEN [@[d] EXCEPT !.compression.slot = slot]
                        ELSE @[d]]]
        freed ==
            IF bin # CanceledBin
            THEN insert_in_sorted_list(
                     [taken EXCEPT !.packer.bins[bin].free_space =
                         @ + st.data_vios[lock_holder].compression.size],
                     bin)
            ELSE taken
    IN  check_for_drain_complete(abort_packing(freed, lock_holder))

vdo_increment_packer_flush_generation(st) ==
    vdo_flush_packer([st EXCEPT !.packer.flush_generation = @ + 1])

\* vdo_drain_packer: vdo_start_draining with initiate_drain of the packer.
vdo_drain_packer(st) ==
    write_all_non_empty_bins(
        [st EXCEPT !.packer.state = "VDO_ADMIN_STATE_SUSPENDING"])

\* vdo_resume_packer
vdo_resume_packer(st) ==
    IF is_vdo_state_quiescent(st.packer.state)
    THEN [st EXCEPT !.packer.state = "VDO_ADMIN_STATE_NORMAL_OPERATION"]
    ELSE st

(***************************************************************************)
(* The steps of the packer and of the data_vios it holds.                  *)
(***************************************************************************)
\* A data_vio of flush generation `generation' whose data compressed to
\* size bytes reaches the packer.
AttemptPacking(d, size, generation) ==
    /\ data_vios[d].where = "compressing"
    /\ PackerCommit(vdo_attempt_packing(
           [PackerStart EXCEPT !.data_vios[d].compression.size = size],
           d, generation))

\* Another data_vio wants the logical block lock which d holds: the
\* compression of d is canceled, and when d is in the packer, the other
\* data_vio goes to the packer to remove it.
CancelCompression(d) ==
    /\ LET canceled == cancel_vio_compression(PackerStart, d)
       IN  /\ canceled.st # PackerStart
           /\ PackerCommit(
                  [canceled.st EXCEPT
                      !.data_vios[d].remover_launched = canceled.result])

RemoveLockHolder(d) ==
    /\ data_vios[d].remover_launched
    /\ PackerCommit(vdo_remove_lock_holder_from_packer(PackerStart, d))

FlushPacker == PackerCommit(vdo_flush_packer(PackerStart))

IncrementFlushGeneration ==
    /\ packer.flush_generation < MaxGeneration
    /\ PackerCommit(vdo_increment_packer_flush_generation(PackerStart))

DrainPacker ==
    /\ vdo_is_state_normal(packer.state)
    /\ PackerCommit(vdo_drain_packer(PackerStart))

ResumePacker ==
    /\ is_vdo_state_quiescent(packer.state)
    /\ PackerCommit(vdo_resume_packer(PackerStart))

\* compressed_write_end_io: the bio of a compressed write ends.
CompressedWriteEndIo(d, result) ==
    /\ data_vios[d].where = "writing"
    /\ PackerCommit(continue_data_vio(PackerStart, d, result))

FinishCompressedWrite(d) ==
    /\ data_vios[d].where = "written"
    /\ PackerCommit(finish_compressed_write(PackerStart, d))

HandleCompressedWriteError(d) ==
    /\ data_vios[d].where = "failed"
    /\ PackerCommit(handle_compressed_write_error(PackerStart, d))

\* The VDO enters read-only mode for a reason of another component.
PackerEnterReadOnly ==
    /\ ~notifier.read_only
    /\ PackerCommit([PackerStart EXCEPT
           !.notifier = vdo_enter_read_only_mode(@, "VDO_IO_ERROR")])

PackerIdle ==
    /\ packer = PackerAfterMake
    /\ data_vios = [d \in DataVios |-> DataVioBeforePacking(d)]

InitPacker == PackerIdle

NextPacker ==
    \/ \E d \in DataVios, size \in 1 .. MaxFragmentSize,
          generation \in 0 .. MaxGeneration :
           AttemptPacking(d, size, generation)
    \/ \E d \in DataVios : CancelCompression(d)
    \/ \E d \in DataVios : RemoveLockHolder(d)
    \/ FlushPacker
    \/ IncrementFlushGeneration
    \/ DrainPacker
    \/ ResumePacker
    \/ \E d \in DataVios, result \in {"VDO_SUCCESS", "VDO_IO_ERROR"} :
           CompressedWriteEndIo(d, result)
    \/ \E d \in DataVios : FinishCompressedWrite(d)
    \/ \E d \in DataVios : HandleCompressedWriteError(d)
    \/ PackerEnterReadOnly

\* The packer until the end of a drain: data_vios of the current flush
\* generation arrive, are canceled and are removed, and the packer is drained.
MaxDrainFragment == 2

NextDrain ==
    \/ \E d \in DataVios, size \in 1 .. MaxDrainFragment :
           AttemptPacking(d, size, 0)
    \/ \E d \in DataVios : CancelCompression(d)
    \/ \E d \in DataVios : RemoveLockHolder(d)
    \/ DrainPacker

\* The data_vio which asks for the lock of a canceled data_vio goes to the
\* packer thread to remove it (the callback launched by
\* cancel_compression), and the packer thread runs what is on its queue.
SomeLockHolderRemoved == \E d \in DataVios : RemoveLockHolder(d)

DrainFairness == WF_vars(SomeLockHolderRemoved)

(***************************************************************************)
(* DIRTY LISTS: the page cache with the periods of its dirty pages         *)
(***************************************************************************)
\* maximum_age of make_vdo_dirty_lists: the number of periods a dirty page
\* may stay unwritten.
MaximumAge == 2

\* The last period of the model: every page dirtied for a journal block of
\* LockSeqs grows too old by then.
MaxEra == MaxLockSeq + MaximumAge

\* make_vdo_dirty_lists: one list per period of the window and the list of
\* the expired elements.  operation and handed are not fields of the
\* structure: the last operation on the lists and the elements which it
\* handed to the callback.
DirtyListsAfterMake ==
    [maximum_age |-> MaximumAge,
     oldest_period |-> 0,
     next_period |-> 0,
     offset |-> 0,
     lists |-> [k \in 0 .. (MaximumAge - 1) |-> {}],
     expired |-> {},
     operation |-> "make_vdo_dirty_lists",
     handed |-> {}]

set_vdo_dirty_lists_current_period(dl, period) ==
    [dl EXCEPT !.oldest_period = period,
               !.next_period = period + 1,
               !.offset = period % dl.maximum_age]

\* The list of the oldest period joins the expired elements.
expire_oldest_list(dl) ==
    [dl EXCEPT !.expired = @ \cup dl.lists[dl.offset],
               !.lists[dl.offset] = {},
               !.oldest_period = @ + 1,
               !.offset = (@ + 1) % dl.maximum_age]

\* The window moves until it holds period; the lists which fall out of it
\* are expired.
RECURSIVE update_period(_, _)
update_period(dl, period) ==
    IF dl.next_period > period
    THEN dl
    ELSE LET expired ==
                 IF dl.next_period - dl.oldest_period = dl.maximum_age
                 THEN expire_oldest_list(dl)
                 ELSE dl
         IN  update_period([expired EXCEPT !.next_period = @ + 1], period)

\* The callback of the dirty lists, which is write_dirty_pages_callback of
\* the page cache, is called with the expired elements, if any.
write_expired_elements(ds) ==
    IF ds.dl.expired = {}
    THEN ds
    ELSE [st |-> write_dirty_pages_callback(ds.st, ds.dl.expired),
          dl |-> [ds.dl EXCEPT !.expired = {}, !.handed = ds.dl.expired]]

\* add_to_vdo_dirty_lists: an element stays on the oldest list on which it
\* was put; one which is too old already is expired at once.
add_to_vdo_dirty_lists(ds, i, old_period, new_period) ==
    IF old_period = new_period \/ (old_period # 0 /\ old_period < new_period)
    THEN ds
    ELSE LET moved == [ds.st EXCEPT !.cache =
                          [RemoveStateEntry(@, i) EXCEPT
                              !.dirty_lists = @ \cup {i}]]
             off == [ds.dl EXCEPT
                        !.lists = [k \in DOMAIN @ |-> @[k] \ {i}]]
             updated == update_period(off, new_period)
         IN  write_expired_elements(
                 IF new_period < off.oldest_period
                 THEN [st |-> moved,
                       dl |-> [off EXCEPT !.expired = @ \cup {i}]]
                 ELSE [st |-> moved,
                       dl |-> [updated EXCEPT
                                  !.lists[new_period % off.maximum_age] =
                                      @ \cup {i}]])

advance_vdo_dirty_lists_period(ds, period) ==
    write_expired_elements([ds EXCEPT !.dl = update_period(@, period)])

\* vdo-page-cache.c:1585-1603, with the periods of the dirty lists.
mark_completed_vdo_page_dirty_in_period(ds, i, old_period, new_period) ==
    add_to_vdo_dirty_lists(
        [ds EXCEPT !.st = set_info_state(@, i, "PS_DIRTY")],
        i, old_period, new_period)

\* The period which the dirty lists have reached.
CurrentPeriod(dl) == dl.next_period - 1

\* The state of a step of the cache with its dirty lists: an element whose
\* state_entry the cache has moved to another list is on no dirty list.
DirtyStart(operation) ==
    [st |-> CacheStart,
     dl |-> [dirty_lists EXCEPT
                !.lists = [k \in DOMAIN @ |-> @[k] \cap cache.dirty_lists],
                !.operation = operation,
                !.handed = {}]]

DirtyBecomes(ds) ==
    /\ CacheBecomes(ds.st)
    /\ dirty_lists' = ds.dl
    /\ UNCHANGED <<lockVars, volumeVars, scrubVars, packerVars, requestVars,
                 operationVars>>

\* blockMap.c:740-770: put_mapping_in_fetched_page for an entry of journal
\* block new_locked: the page is dirty in the period of its recovery lock.
PutMappingInPeriod(r, new_locked) ==
    /\ completions[r].phase = "ready"
    /\ completions[r].writable
    /\ LET i == completions[r].info
           old_lock == cache.infos[i].recovery_lock
           updated == update_vdo_block_map_page(CacheStart, i, new_locked)
           marked ==
               mark_completed_vdo_page_dirty_in_period(
                   [DirtyStart("add_to_vdo_dirty_lists") EXCEPT
                       !.st = updated],
                   i, old_lock,
                   updated.cache.infos[i].recovery_lock)
       IN  DirtyBecomes(
               [marked EXCEPT !.st = release_vdo_page_completion(@, r)])

\* vdo-page-cache.c:1262-1267: advance_vdo_page_cache_period.
AdvanceDirtyPeriod(period) ==
    /\ period > CurrentPeriod(dirty_lists)
    /\ DirtyBecomes(advance_vdo_dirty_lists_period(
           DirtyStart("advance_vdo_dirty_lists_period"), period))

DirtyIdle == dirty_lists = DirtyListsAfterMake

\* vdo-page-cache.c:309-314: set_vdo_page_cache_initial_period.
InitDirty ==
    dirty_lists =
        [set_vdo_dirty_lists_current_period(DirtyListsAfterMake, 1) EXCEPT
            !.operation = "set_vdo_dirty_lists_current_period"]

NextDirty ==
    \/ \E r \in TwoRequesters, pbn \in Pbns, writable \in BOOLEAN :
          GetPageInZone(r, pbn, writable)
    \/ \E i \in Slots : PageRead(i)
    \/ \E r \in Requesters : GetMapping(r)
    \/ \E r \in Requesters, new_locked \in LockSeqs :
          PutMappingInPeriod(r, new_locked)
    \/ \E period \in 1 .. MaxEra : AdvanceDirtyPeriod(period)
    \/ FlushDone
    \/ \E i \in Slots, read_initialized \in BOOLEAN :
          PageWritten(i, read_initialized)

(***************************************************************************)
(* WAIT QUEUES                                                             *)
(*                                                                         *)
(* A wait_queue is a pointer to its newest waiter and a length; the        *)
(* waiters form a ring through next_waiter, the newest one pointing at the *)
(* oldest.  The next_waiter fields of all waiters are one function.        *)
(***************************************************************************)
\* initialize_wait_queue.
EmptyQueue == [last_waiter |-> NULL, queue_length |-> 0]

has_waiters(queue) == queue.last_waiter # NULL

is_waiting(next_waiter, waiter) == next_waiter[waiter] # NULL

get_first_waiter(queue, next_waiter) ==
    IF queue.last_waiter = NULL THEN NULL ELSE next_waiter[queue.last_waiter]

\* A variant which puts the waiter at the head end of the ring.
enqueue_waiter_at_head(queue, next_waiter, waiter) ==
    [queue |-> [last_waiter |-> IF queue.last_waiter = NULL THEN waiter
                                ELSE queue.last_waiter,
                queue_length |-> queue.queue_length + 1],
     next_waiter |->
        IF queue.last_waiter = NULL
        THEN [next_waiter EXCEPT ![waiter] = waiter]
        ELSE [[next_waiter EXCEPT ![waiter] = next_waiter[queue.last_waiter]]
                 EXCEPT ![queue.last_waiter] = waiter]]

\* The waiter becomes the newest of the ring and points at the oldest.
enqueue_waiter(queue, next_waiter, waiter) ==
    [queue |-> [last_waiter |-> waiter,
                queue_length |-> queue.queue_length + 1],
     next_waiter |->
        IF queue.last_waiter = NULL
        THEN [next_waiter EXCEPT ![waiter] = waiter]
        ELSE [[next_waiter EXCEPT ![waiter] = next_waiter[queue.last_waiter]]
                 EXCEPT ![queue.last_waiter] = waiter]]

\* The oldest waiter leaves the ring; waiter is NULL for an empty queue.
dequeue_next_waiter(queue, next_waiter) ==
    LET first_waiter == get_first_waiter(queue, next_waiter)
        last_waiter == queue.last_waiter
    IN  IF first_waiter = NULL
        THEN [queue |-> queue, next_waiter |-> next_waiter, waiter |-> NULL]
        ELSE [queue |-> [last_waiter |-> IF first_waiter = last_waiter
                                         THEN NULL ELSE last_waiter,
                         queue_length |-> queue.queue_length - 1],
              next_waiter |->
                 [[next_waiter EXCEPT ![last_waiter] = next_waiter[first_waiter]]
                     EXCEPT ![first_waiter] = NULL],
              waiter |-> first_waiter]

\* The waiters of a queue from the oldest to the newest.
RECURSIVE WaitersFrom(_, _, _)
WaitersFrom(next_waiter, waiter, length) ==
    IF length = 0 \/ waiter = NULL THEN <<>>
    ELSE <<waiter>> \o WaitersFrom(next_waiter, next_waiter[waiter], length - 1)

WaitersOf(queue, next_waiter) ==
    WaitersFrom(next_waiter, get_first_waiter(queue, next_waiter),
                queue.queue_length)

(***************************************************************************)
(* VIO POOL                                                                *)
(***************************************************************************)
\* The number of entries make_vio_pool is asked for.
PoolSize == 2

PoolEntries == 1 .. PoolSize

\* The requesters of the pool, each with one struct waiter.
PoolWaiters == 1 .. (PoolSize + 2)

NoEntry == NULL

NoGrant == [waiter |-> NULL, entry |-> NoEntry]

\* make_vio_pool: every entry is on the available list.  entry is what each
\* requester's callback was given; asked (the requesters waiting, in the
\* order of their calls) and granted (the callback run by the last step) are
\* not fields of the pool.
PoolAfterMake ==
    [size |-> PoolSize,
     available |-> [i \in 1 .. PoolSize |-> i],
     waiting |-> EmptyQueue,
     busy_count |-> 0,
     busy |-> <<>>,
     next_waiter |-> [w \in PoolWaiters |-> NULL],
     entry |-> [w \in PoolWaiters |-> NoEntry],
     asked |-> <<>>,
     granted |-> NoGrant]

PoolStart == [vio_pool EXCEPT !.granted = NoGrant]

\* The callback of a waiter of the pool: the requester has the entry.
waiter_callback(pool, waiter, entry) ==
    [pool EXCEPT !.entry[waiter] = entry,
                 !.granted = [waiter |-> waiter, entry |-> entry],
                 !.asked = RemoveFromSeq(@, waiter)]

notify_next_waiter(pool, context) ==
    LET q == dequeue_next_waiter(pool.waiting, pool.next_waiter)
    IN  IF q.waiter = NULL THEN pool
        ELSE waiter_callback([pool EXCEPT !.waiting = q.queue,
                                          !.next_waiter = q.next_waiter],
                             q.waiter, context)

acquire_vio_from_pool(pool, waiter) ==
    IF pool.available = <<>>
    THEN LET q == enqueue_waiter(pool.waiting, pool.next_waiter, waiter)
         IN  [pool EXCEPT !.waiting = q.queue,
                          !.next_waiter = q.next_waiter,
                          !.asked = Append(@, waiter)]
    ELSE LET entry == Head(pool.available)
         IN  waiter_callback([pool EXCEPT !.busy_count = @ + 1,
                                          !.available = Tail(@),
                                          !.busy = Append(@, entry)],
                             waiter, entry)

\* A variant which takes the entry off the busy list whoever gets it.
return_vio_to_pool_counting_down(pool, entry) ==
    LET next == [pool EXCEPT !.busy_count = @ - 1]
    IN  IF has_waiters(pool.waiting) THEN notify_next_waiter(next, entry)
        ELSE [next EXCEPT !.available = Append(@, entry),
                          !.busy = RemoveFromSeq(@, entry)]

return_vio_to_pool(pool, entry) ==
    IF has_waiters(pool.waiting) THEN notify_next_waiter(pool, entry)
    ELSE [pool EXCEPT !.available = Append(@, entry),
                      !.busy = RemoveFromSeq(@, entry),
                      !.busy_count = @ - 1]

\* A requester which is not waiting and has no entry asks for one.
AcquireVio(waiter) ==
    /\ ~is_waiting(vio_pool.next_waiter, waiter)
    /\ vio_pool.entry[waiter] = NoEntry
    /\ vio_pool' = acquire_vio_from_pool(PoolStart, waiter)
    /\ UNCHANGED <<mapping, logical_zone>>
    /\ MetadataFrame

\* A requester is done with its entry.
ReturnVio(waiter) ==
    /\ vio_pool.entry[waiter] # NoEntry
    /\ vio_pool' =
          return_vio_to_pool([PoolStart EXCEPT !.entry[waiter] = NoEntry],
                             vio_pool.entry[waiter])
    /\ UNCHANGED <<mapping, logical_zone>>
    /\ MetadataFrame

PoolIdle == vio_pool = PoolAfterMake

InitPool == PoolIdle

NextPool ==
    \/ \E waiter \in PoolWaiters : AcquireVio(waiter)
    \/ \E waiter \in PoolWaiters : ReturnVio(waiter)

(***************************************************************************)
(* BLOCK MAP LOOKUP                                                        *)
(*                                                                         *)
(* get_mapping_from_fetched_page decodes the entry of the data_vio's slot  *)
(* in the fetched page and sets the data_vio's mapped location from it.    *)
(***************************************************************************)
VDO_MAPPING_STATE_UNMAPPED == 0

VDO_ZERO_BLOCK == 0

\* The mapping states an entry's four bits can hold (scaled with the slots).
MappingStates ==
    0 .. (VDO_MAPPING_STATE_COMPRESSED_BASE + VDO_MAX_COMPRESSION_SLOTS - 1)

\* The two parts of the PBN in a packed entry.
PbnHighNibbles == 0 .. 1

PbnLowWords == 0 .. 1

\* The physical blocks which belong to a slab of the depot.
DataPbns == 1 .. 2

DataVioOperations == {"VIO_READ", "VIO_WRITE", "VIO_READ_MODIFY_WRITE"}

BlockMapEntries ==
    [mapping_state : MappingStates, pbn_high_nibble : PbnHighNibbles,
     pbn_low_word : PbnLowWords]

unpack_vdo_block_map_entry(entry) ==
    [pbn |-> entry.pbn_high_nibble * Cardinality(PbnLowWords)
                + entry.pbn_low_word,
     state |-> entry.mapping_state]

vdo_is_mapped_location(location) ==
    location.state # VDO_MAPPING_STATE_UNMAPPED

\* The zero block is never a compressed block; any other block is mapped.
vdo_is_valid_location(location) ==
    IF location.pbn = VDO_ZERO_BLOCK
    THEN ~vdo_is_state_compressed(location.state)
    ELSE vdo_is_mapped_location(location)

\* The physical zone of a PBN: none for the zero block, an error for a block
\* outside the depot or one whose slab is not found.
get_vdo_physical_zone(pbn, slab_found) ==
    IF pbn = VDO_ZERO_BLOCK THEN [result |-> "VDO_SUCCESS", zone |-> NULL]
    ELSE IF pbn \notin DataPbns
         THEN [result |-> "VDO_OUT_OF_RANGE", zone |-> NULL]
         ELSE IF ~slab_found
              THEN [result |-> "UDS_ASSERTION_FAILED", zone |-> NULL]
              ELSE [result |-> "VDO_SUCCESS", zone |-> 1]

is_read_data_vio(data_vio) == data_vio.operation = "VIO_READ"

UnmappedLocation ==
    [pbn |-> 0, state |-> VDO_MAPPING_STATE_UNMAPPED, zone |-> NULL]

clear_data_vio_mapped_location(data_vio) ==
    [data_vio EXCEPT !.mapped = UnmappedLocation]

\* The data_vio after the call, and the call's result.
set_data_vio_mapped_location(data_vio, pbn, state, slab_found) ==
    LET found == get_vdo_physical_zone(pbn, slab_found)
    IN  IF found.result # "VDO_SUCCESS"
        THEN [data_vio |-> data_vio, result |-> found.result]
        ELSE [data_vio |->
                 [data_vio EXCEPT !.mapped = [pbn |-> pbn, state |-> state,
                                              zone |-> found.zone]],
              result |-> "VDO_SUCCESS"]

\* A variant which takes the entry as it is.
set_mapped_entry_as_read(data_vio, entry, slab_found) ==
    LET mapped == unpack_vdo_block_map_entry(entry)
    IN  [data_vio |->
            [data_vio EXCEPT !.mapped = [pbn |-> mapped.pbn,
                                         state |-> mapped.state,
                                         zone |-> NULL]],
         result |-> "VDO_SUCCESS"]

set_mapped_entry(data_vio, entry, slab_found) ==
    LET mapped == unpack_vdo_block_map_entry(entry)
        set == set_data_vio_mapped_location(data_vio, mapped.pbn,
                                            mapped.state, slab_found)
    IN  IF /\ vdo_is_valid_location(mapped)
           /\ \/ set.result = "VDO_SUCCESS"
              \/ /\ set.result # "VDO_OUT_OF_RANGE"
                 /\ set.result # "VDO_BAD_MAPPING"
        THEN set
        ELSE IF is_read_data_vio(data_vio)
             THEN [data_vio |-> data_vio, result |-> "VDO_BAD_MAPPING"]
             ELSE [data_vio |-> clear_data_vio_mapped_location(data_vio),
                   result |-> "VDO_SUCCESS"]

\* A data_vio whose block map page has been fetched: the entry of its slot,
\* and nothing mapped yet.
FetchedMappings ==
    [data_vio : [operation : DataVioOperations, mapped : {UnmappedLocation},
                 result : {"VDO_SUCCESS"}],
     entry : BlockMapEntries,
     slab_found : BOOLEAN,
     where : {"fetched"}]

\* The page completion's callback: the entry of the slot is decoded and the
\* data_vio continues with the result (finish_processing_page).
GetMappingFromFetchedPage ==
    /\ mapping.where = "fetched"
    /\ LET set == set_mapped_entry(mapping.data_vio, mapping.entry,
                                   mapping.slab_found)
       IN  mapping' =
              [mapping EXCEPT
                  !.data_vio = [set.data_vio EXCEPT !.result = set.result],
                  !.where = "finished"]
    /\ UNCHANGED <<vio_pool, logical_zone>>
    /\ MetadataFrame

\* No lookup is under way.
MappingIdle == mapping = [where |-> "idle"]

InitMapping == mapping \in FetchedMappings

NextMapping == GetMappingFromFetchedPage

(***************************************************************************)
(* LOGICAL BLOCK LOCKS                                                     *)
(***************************************************************************)
\* vdo->states.vdo.config.logical_blocks: the logical blocks of the VDO are
\* 0 .. LogicalBlocks - 1.
LogicalBlocks == 2

\* The logical block numbers a request may name: the last is out of range.
RequestedLbns == 0 .. LogicalBlocks

\* The data_vios of the logical zone.
LockVios == 1 .. 3

\* The largest number of requests counted in the logical zone.
MaxLbnRequests == 4

\* data-vio.c:179-222: the LBN lock of a data_vio after prepare_data_vio
\* (initialize_lbn_lock, vio_reset_allocation), for a request of the
\* operation on the lbn.  `launches' counts the calls of
\* launch_locked_request for the request.
PreparedDataVio(lbn, operation) ==
    [phase |-> "prepared", operation |-> operation, lbn |-> lbn,
     locked |-> FALSE, waiters |-> EmptyQueue,
     allocation_succeeded |-> FALSE, may_not_compress |-> FALSE,
     result |-> "VDO_SUCCESS", launches |-> 0]

\* A data_vio which serves no request.
FreeDataVio == [PreparedDataVio(0, "VIO_READ") EXCEPT !.phase = "free"]

\* The logical zone with an empty lock map and no request.
ZoneAfterMake ==
    [lbn_lock_map |-> [lbn \in 0 .. (LogicalBlocks - 1) |-> NULL],
     vios |-> [d \in LockVios |-> FreeDataVio],
     next_waiter |-> [d \in LockVios |-> NULL],
     requests |-> 0,
     released |-> [by |-> NULL, waiters |-> <<>>]]

\* A release which forgets the waiters it does not hand the lock to.
transfer_all_waiters_dropping(from_queue, to_queue, next_waiter) ==
    [from_queue |-> EmptyQueue, to_queue |-> to_queue,
     next_waiter |-> next_waiter]

\* waitQueue.h:159-168: every waiter of from_queue goes to the end of
\* to_queue, in order: the rings are spliced by swapping the next pointers
\* of their last waiters, and from_queue is left empty.
transfer_all_waiters(from_queue, to_queue, next_waiter) ==
    IF ~has_waiters(from_queue)
    THEN [from_queue |-> from_queue, to_queue |-> to_queue,
          next_waiter |-> next_waiter]
    ELSE [from_queue |-> EmptyQueue,
          to_queue |-> [last_waiter |-> from_queue.last_waiter,
                        queue_length |-> to_queue.queue_length
                                            + from_queue.queue_length],
          next_waiter |->
             IF has_waiters(to_queue)
             THEN [next_waiter EXCEPT
                      ![to_queue.last_waiter] =
                          next_waiter[from_queue.last_waiter],
                      ![from_queue.last_waiter] =
                          next_waiter[to_queue.last_waiter]]
             ELSE next_waiter]

\* finish_data_vio: the request is over, with the result.
finish_data_vio(z, d, result) ==
    [z EXCEPT !.vios[d].phase = "finished", !.vios[d].result = result]

\* data-vio.c:339-348.
launch_locked_request(z, d) ==
    [z EXCEPT !.vios[d].locked = TRUE,
              !.vios[d].phase = "launched",
              !.vios[d].launches = @ + 1]

\* The data_vio's compression is canceled (the part of
\* cancel_vio_compression which the lock holder keeps).
cancel_compression_of(z, d) == [z EXCEPT !.vios[d].may_not_compress = TRUE]

\* An attempt which takes the lock although it is held.
attempt_logical_block_lock_always_granted(z, d) ==
    launch_locked_request(
        [z EXCEPT !.lbn_lock_map[z.vios[d].lbn] = d], d)

\* data-vio.c:356-432.  int_map_put without update leaves the entry of a
\* key which has one and returns it.
attempt_logical_block_lock(z, d) ==
    LET data_vio == z.vios[d]
        lbn == data_vio.lbn
    IN  IF lbn >= LogicalBlocks
        THEN finish_data_vio(z, d, "VDO_OUT_OF_RANGE")
        ELSE LET lock_holder == z.lbn_lock_map[lbn]
             IN  IF lock_holder = NULL
                 THEN launch_locked_request(
                          [z EXCEPT !.lbn_lock_map[lbn] = d], d)
                 ELSE IF ~z.vios[lock_holder].locked
                 THEN finish_data_vio(z, d, "UDS_ASSERTION_FAILED")
                 ELSE IF /\ is_read_data_vio(data_vio)
                         /\ z.vios[lock_holder].allocation_succeeded
                 THEN finish_data_vio(z, d, "VDO_SUCCESS")
                 ELSE LET queued == enqueue_waiter(
                                        z.vios[lock_holder].waiters,
                                        z.next_waiter, d)
                          waiting == [z EXCEPT
                                         !.vios[lock_holder].waiters =
                                             queued.queue,
                                         !.next_waiter = queued.next_waiter,
                                         !.vios[d].phase = "waiting"]
                      IN  IF ~is_read_data_vio(z.vios[lock_holder])
                          THEN cancel_compression_of(waiting, lock_holder)
                          ELSE waiting

\* data-vio.c:439-464.
release_lock(z, d) ==
    IF ~z.vios[d].locked
    THEN z
    ELSE [z EXCEPT !.lbn_lock_map[z.vios[d].lbn] = NULL,
                   !.vios[d].locked = FALSE]

\* data-vio.c:467-516.  int_map_put with update replaces the entry.
vdo_release_logical_block_lock(z, d) ==
    IF ~has_waiters(z.vios[d].waiters)
    THEN release_lock(z, d)
    ELSE LET dequeued == dequeue_next_waiter(z.vios[d].waiters,
                                             z.next_waiter)
             next_lock_holder == dequeued.waiter
             moved == transfer_all_waiters(
                          dequeued.queue,
                          z.vios[next_lock_holder].waiters,
                          dequeued.next_waiter)
             handed == [z EXCEPT
                           !.vios[d].waiters = moved.from_queue,
                           !.vios[next_lock_holder].waiters = moved.to_queue,
                           !.next_waiter = moved.next_waiter,
                           !.lbn_lock_map[z.vios[d].lbn] = next_lock_holder,
                           !.vios[d].locked = FALSE]
             canceled == IF has_waiters(moved.to_queue)
                         THEN cancel_compression_of(handed, next_lock_holder)
                         ELSE handed
         IN  launch_locked_request(canceled, next_lock_holder)

\* A request arrives: a free data_vio is prepared for the operation on the
\* lbn and attempts the lock (of the free data_vios, which are alike, the
\* first is taken).
AttemptLogicalBlockLock(d, lbn, operation) ==
    /\ logical_zone.vios[d].phase = "free"
    /\ \A e \in LockVios : logical_zone.vios[e].phase = "free" => d <= e
    /\ logical_zone.requests < MaxLbnRequests
    /\ logical_zone' =
          attempt_logical_block_lock(
              [logical_zone EXCEPT
                  !.vios[d] = PreparedDataVio(lbn, operation),
                  !.requests = @ + 1,
                  !.released = [by |-> NULL, waiters |-> <<>>]],
              d)
    /\ MetadataFrame
    /\ UNCHANGED <<vio_pool, mapping>>

\* The write of the lock holder gets its block: allocation_succeeded is
\* set on the write path.
AllocationSucceeds(d) ==
    /\ logical_zone.vios[d].phase = "launched"
    /\ ~is_read_data_vio(logical_zone.vios[d])
    /\ ~logical_zone.vios[d].allocation_succeeded
    /\ logical_zone' =
          [logical_zone EXCEPT
              !.vios[d].allocation_succeeded = TRUE,
              !.released = [by |-> NULL, waiters |-> <<>>]]
    /\ MetadataFrame
    /\ UNCHANGED <<vio_pool, mapping>>

\* The request of the data_vio is over (done, or finished by the attempt):
\* its cleanup releases the logical block lock and the data_vio is free for
\* another request.  The waiters it had, oldest first, are recorded.
ReleaseLogicalBlockLock(d) ==
    /\ logical_zone.vios[d].phase \in {"launched", "finished"}
    /\ LET released ==
               vdo_release_logical_block_lock(
                   [logical_zone EXCEPT
                       !.released =
                           [by |-> d,
                            waiters |-> WaitersOf(logical_zone.vios[d].waiters,
                                                  logical_zone.next_waiter)]],
                   d)
       IN  logical_zone' =
              [released EXCEPT
                  !.vios[d] = [released.vios[d] EXCEPT !.phase = "free"]]
    /\ MetadataFrame
    /\ UNCHANGED <<vio_pool, mapping>>

LogicalIdle == logical_zone = ZoneAfterMake

NextLbnLock ==
    \/ \E d \in LockVios, lbn \in RequestedLbns, operation \in DataVioOperations :
          AttemptLogicalBlockLock(d, lbn, operation)
    \/ \E d \in LockVios : AllocationSucceeds(d)
    \/ \E d \in LockVios : ReleaseLogicalBlockLock(d)

(***************************************************************************)
(* READING A COMPRESSED FRAGMENT (compressed-block.c)                      *)
(***************************************************************************)
\* The number of values of a uint16_t, 65536 in the program and scaled with
\* the block: offset and the sizes of the header are uint16_t.
UINT16_VALUES == 16

\* sizeof(struct compressed_block_header): 4 + 4 + 2 * 14 = 36 in the program.
CompressedBlockHeaderSize == 2

\* block_size: VDO_BLOCK_SIZE, 4096 in the program.
FragmentBlockSize == 8

Uint16 == 0 .. (UINT16_VALUES - 1)

uint16(n) == n % UINT16_VALUES

\* enum block_mapping_state, with one state past the last compressed slot.
FragmentMappingStates ==
    0 .. (VDO_MAPPING_STATE_COMPRESSED_BASE + VDO_MAX_COMPRESSION_SLOTS)

vdo_get_slot_from_state(mapping_state) ==
    mapping_state - VDO_MAPPING_STATE_COMPRESSED_BASE

\* The headers read from a block: a version which is COMPRESSED_BLOCK_1_0 or
\* is not, and any sizes.
CompressedBlockHeaders ==
    [version : {"1.0", "other"},
     sizes : [0 .. (VDO_MAX_COMPRESSION_SLOTS - 1) -> Uint16]]

\* The loop of vdo_get_compressed_block_fragment from slot i on: offset is a
\* uint16_t, and the sum is stored into it before it is compared.
RECURSIVE FragmentOffset(_, _, _, _, _)
FragmentOffset(header, slot, block_size, i, offset) ==
    IF i >= slot
    THEN [valid |-> TRUE, offset |-> offset]
    ELSE LET next == uint16(offset + header.sizes[i])
         IN  IF next >= block_size
             THEN [valid |-> FALSE, offset |-> next]
             ELSE FragmentOffset(header, slot, block_size, i + 1, next)

InvalidFragment ==
    [result |-> "VDO_INVALID_FRAGMENT", fragment_offset |-> "unset",
     fragment_size |-> "unset"]

vdo_get_compressed_block_fragment(mapping_state, header, block_size) ==
    LET slot == vdo_get_slot_from_state(mapping_state)
        compressed_size == header.sizes[slot]
        found == FragmentOffset(header, slot, block_size, 0,
                                CompressedBlockHeaderSize)
    IN  IF ~vdo_is_state_compressed(mapping_state)
        THEN InvalidFragment
        ELSE IF header.version # "1.0"
        THEN InvalidFragment
        ELSE IF slot >= VDO_MAX_COMPRESSION_SLOTS
        THEN InvalidFragment
        ELSE IF ~found.valid
        THEN InvalidFragment
        ELSE IF (found.offset + compressed_size) > block_size
        THEN InvalidFragment
        ELSE [result |-> "VDO_SUCCESS", fragment_offset |-> found.offset,
              fragment_size |-> compressed_size]

\* No fragment is being read.
FragmentIdle ==
    compressed_fragment =
        [pc |-> "idle", mapping_state |-> 0,
         header |-> [version |-> "1.0",
                     sizes |-> [k \in 0 .. (VDO_MAX_COMPRESSION_SLOTS - 1)
                                    |-> 0]],
         out |-> InvalidFragment]

\* A block has been read for a mapping: any mapping state, any header.
InitFragment ==
    compressed_fragment \in
        [pc : {"read"}, mapping_state : FragmentMappingStates,
         header : CompressedBlockHeaders, out : {InvalidFragment}]

GetCompressedBlockFragment ==
    /\ compressed_fragment.pc = "read"
    /\ compressed_fragment' =
          [compressed_fragment EXCEPT
              !.pc = "done",
              !.out = vdo_get_compressed_block_fragment(
                          compressed_fragment.mapping_state,
                          compressed_fragment.header, FragmentBlockSize)]
    /\ UNCHANGED <<notifier, resume, grow>>
    /\ OperationFrame

NextFragment == GetCompressedBlockFragment

(***************************************************************************)
(* RESUME (vdoResume.c)                                                    *)
(***************************************************************************)
\* The values of admin_completion->phase during a resume, from
\* RESUME_PHASE_START (0) to RESUME_PHASE_END (8).
RESUME_PHASE_START == 0

RESUME_PHASE_END == 8

\* What each phase before the last starts: the save of the super block, and
\* the resume of a component.
ResumeOperations ==
    <<"save_vdo_components", "vdo_allow_read_only_mode_entry",
      "resume_vdo_slab_depot", "resume_vdo_recovery_journal",
      "resume_vdo_block_map", "resume_vdo_logical_zones",
      "resume_vdo_packer", "vdo_resume_flusher">>

\* The states of a VDO (get_vdo_state).
VdoStates ==
    {"VDO_CLEAN", "VDO_NEW", "VDO_DIRTY", "VDO_READ_ONLY_MODE",
     "VDO_FORCE_REBUILD", "VDO_RECOVERING", "VDO_REBUILD_FOR_UPGRADE",
     "VDO_REPLAYING"}

\* The results with which the operation a phase started may finish.
SubTaskResults == {"VDO_SUCCESS", "VDO_READ_ONLY", "VDO_IO_ERROR"}

\* A VDO before perform_vdo_resume.  completion is
\* admin_completion->completion and sub_task its sub_task_completion, whose
\* parent it is; pending is the operation the sub-task waits for, or "none"
\* when the sub-task has been completed by the callback itself.  started and
\* results are not fields of the program: the operations the phases have
\* started, and the results their sub-tasks have finished with, in order.
VdoBeforeResume(admin_state, vdo_state) ==
    [pc |-> "suspended", phase |-> RESUME_PHASE_START,
     admin_state |-> admin_state, vdo_state |-> vdo_state,
     completion |-> [result |-> "VDO_SUCCESS", complete |-> FALSE],
     sub_task |-> [result |-> "VDO_SUCCESS"],
     pending |-> "none", started |-> <<>>, results |-> <<>>,
     returned |-> "none"]

\* reset_vdo_admin_sub_task: reset_vdo_completion of the sub-task.
reset_vdo_admin_sub_task(r) ==
    [r EXCEPT !.sub_task.result = "VDO_SUCCESS"]

\* The operation of a phase is started with the sub-task as its parent.
StartOperation(r, operation) ==
    [r EXCEPT !.pending = operation, !.started = Append(@, operation)]

\* finish_vdo_completion of the sub-task by the callback itself.
FinishSubTask(r, result) ==
    [r EXCEPT !.sub_task = set_vdo_completion_result(@, result),
              !.pending = "none"]

\* write_super_block
write_super_block(r) ==
    IF r.vdo_state \in {"VDO_CLEAN", "VDO_NEW"}
    THEN StartOperation([r EXCEPT !.vdo_state = "VDO_DIRTY"],
                        "save_vdo_components")
    ELSE IF r.vdo_state = "VDO_REPLAYING"
    THEN FinishSubTask(r, "UDS_BAD_STATE")
    ELSE FinishSubTask(r, "VDO_SUCCESS")

\* finish_vdo_resuming_with_result: the state is normal operation again and
\* the waiter of the operation, admin_completion->completion, is finished.
finish_vdo_resuming_with_result(r, result) ==
    [r EXCEPT
        !.admin_state = "VDO_ADMIN_STATE_NORMAL_OPERATION",
        !.completion = [set_vdo_completion_result(@, result)
                            EXCEPT !.complete = TRUE]]

\* start_vdo_resuming: a quiescent state becomes VDO_ADMIN_STATE_RESUMING;
\* from any other state the waiter is finished with
\* VDO_INVALID_ADMIN_STATE.
start_vdo_resuming(r) ==
    IF is_vdo_state_quiescent(r.admin_state)
    THEN [r EXCEPT !.admin_state = "VDO_ADMIN_STATE_RESUMING"]
    ELSE [r EXCEPT
             !.completion = [set_vdo_completion_result(
                                 @, "VDO_INVALID_ADMIN_STATE")
                                 EXCEPT !.complete = TRUE]]

\* resume_callback: the switch on admin_completion->phase++.
resume_callback(r) ==
    LET phase == r.phase
        next == [r EXCEPT !.phase = @ + 1]
    IN  IF phase = RESUME_PHASE_START
        THEN LET started == start_vdo_resuming(next)
             IN  IF started.completion.complete
                 THEN started
                 ELSE write_super_block(started)
        ELSE IF phase < RESUME_PHASE_END
        THEN StartOperation(reset_vdo_admin_sub_task(next),
                            ResumeOperations[phase + 1])
        ELSE IF phase = RESUME_PHASE_END
        THEN finish_vdo_resuming_with_result(next, next.sub_task.result)
        ELSE finish_vdo_resuming_with_result(
                 next,
                 set_vdo_completion_result(
                     reset_vdo_admin_sub_task(next).sub_task,
                     "UDS_BAD_STATE").result)

\* preserve_vdo_completion_error_and_continue: the error goes to the parent,
\* the failing completion is reset and its callback is called.
preserve_vdo_completion_error_and_continue(r) ==
    resume_callback(
        reset_vdo_admin_sub_task(
            [r EXCEPT !.completion =
                 set_vdo_completion_result(@, r.sub_task.result)]))

\* run_vdo_completion_callback of the sub-task of a resume.
run_vdo_completion_callback(r) ==
    IF r.sub_task.result # "VDO_SUCCESS"
    THEN preserve_vdo_completion_error_and_continue(r)
    ELSE resume_callback(r)

\* A variant of perform_vdo_resume which returns the result as it is.
perform_vdo_resume_returning_read_only(result) == result

\* perform_vdo_resume: the result it makes of the result of the operation.
perform_vdo_resume(result) ==
    IF result = "VDO_READ_ONLY" THEN "VDO_SUCCESS" ELSE result

\* perform_vdo_admin_operation returns once the completion is complete.
ReturnWhenComplete(r) ==
    IF r.completion.complete
    THEN [r EXCEPT !.pc = "done",
                   !.returned = perform_vdo_resume(r.completion.result)]
    ELSE [r EXCEPT !.pc = "resuming"]

ResumeStep(r) ==
    /\ resume' = ReturnWhenComplete(r)
    /\ UNCHANGED <<notifier, compressed_fragment, grow>>
    /\ OperationFrame

\* perform_vdo_resume: perform_vdo_admin_operation prepares the sub-task and
\* launches resume_callback.
PerformVdoResume ==
    /\ resume.pc = "suspended"
    /\ ResumeStep(resume_callback(resume))

\* The sub-task completion comes back to the admin completion's callback:
\* the operation the phase started has finished with a result, or the
\* callback had completed the sub-task itself.
SubTaskCallback(result) ==
    /\ resume.pc = "resuming"
    /\ IF resume.pending = "none"
       THEN result = resume.sub_task.result
       ELSE result \in SubTaskResults
    /\ ResumeStep(run_vdo_completion_callback(
           [resume EXCEPT
               !.sub_task = set_vdo_completion_result(@, result),
               !.pending = "none",
               !.results = Append(@, result)]))

ResumeIdle == resume = [pc |-> "idle"]

InitResume ==
    resume \in {VdoBeforeResume(admin_state, vdo_state) :
                   admin_state \in {"VDO_ADMIN_STATE_SUSPENDED",
                                    "VDO_ADMIN_STATE_SAVED",
                                    "VDO_ADMIN_STATE_NORMAL_OPERATION"},
                   vdo_state \in VdoStates}

NextResume ==
    \/ PerformVdoResume
    \/ \E result \in SubTaskResults \cup {"UDS_BAD_STATE"} :
          SubTaskCallback(result)

(***************************************************************************)
(* GROW PHYSICAL (vdoResize.c)                                             *)
(***************************************************************************)
GROW_PHYSICAL_PHASE_START == 0

GROW_PHYSICAL_PHASE_COPY_SUMMARY == 1

GROW_PHYSICAL_PHASE_UPDATE_COMPONENTS == 2

GROW_PHYSICAL_PHASE_USE_NEW_SLABS == 3

GROW_PHYSICAL_PHASE_END == 4

GROW_PHYSICAL_PHASE_ERROR == 5

\* The physical size of the VDO before it grows, in blocks.
OldPhysicalBlocks == 2

\* The largest physical size a grow is prepared or requested for.
MaxPhysicalBlocks == 5

\* The blocks of a layout outside the block allocator partition.
LayoutOverhead == 1

\* The sizes a perform request may name: the current one and larger ones.
RequestedSizes == OldPhysicalBlocks..MaxPhysicalBlocks

\* The layout of a VDO prepared to grow to next_size blocks, or not prepared
\* when next_size is 0.
LayoutPreparedFor(next_size) ==
    [size |-> OldPhysicalBlocks, next_size |-> next_size]

\* get_next_vdo_layout_size: 0 when there is no next layout.
get_next_vdo_layout_size(layout) == layout.next_size

\* vdo_get_next_block_allocator_partition_size: 0 when there is no next
\* layout.
vdo_get_next_block_allocator_partition_size(layout) ==
    IF layout.next_size = 0 THEN 0 ELSE layout.next_size - LayoutOverhead

\* finish_vdo_layout_growth: the next layout, if any, is given up.
finish_vdo_layout_growth(layout) ==
    [layout EXCEPT !.next_size = 0]

\* grow_vdo_layout: the next layout becomes the layout; returns its size.
grow_vdo_layout(layout) ==
    [layout EXCEPT !.size = IF layout.next_size = 0 THEN @
                            ELSE layout.next_size]

\* A slab depot with new slabs prepared for new_size blocks, or none when
\* new_size is 0.
DepotPreparedFor(new_size) ==
    [size |-> OldPhysicalBlocks - LayoutOverhead, new_size |-> new_size,
     new_slabs |-> IF new_size = 0 THEN "none" ELSE "prepared"]

\* get_vdo_slab_depot_new_size
get_vdo_slab_depot_new_size(depot) == depot.new_size

\* vdo_abandon_new_slabs: the new slabs prepared are freed.
vdo_abandon_new_slabs(depot) ==
    [depot EXCEPT !.new_size = 0, !.new_slabs = "none"]

\* update_vdo_slab_depot_size: the depot takes the size it was prepared
\* for.
update_vdo_slab_depot_size(depot) ==
    [depot EXCEPT !.size = depot.new_size]

\* A VDO before perform_vdo_grow_physical.  physical_blocks is
\* vdo->states.vdo.config.physical_blocks and saved_physical_blocks the size
\* in the super block on storage; copied holds the partitions copied to
\* their place in the next layout and partitions_moved the components told
\* of their new partition; completion is admin_completion->completion,
\* waiter whether it waits on the admin state, and sub_task its
\* sub_task_completion.  pending is the operation the sub-task waits for.
\* started, results and requested are not fields of the program: the
\* operations the phases have started, the results their sub-tasks have
\* finished with, and the size asked for.
VdoBeforeGrow(admin_state, next_size, new_size) ==
    [pc |-> "prepared", phase |-> GROW_PHYSICAL_PHASE_START,
     admin_state |-> admin_state,
     physical_blocks |-> OldPhysicalBlocks,
     saved_physical_blocks |-> OldPhysicalBlocks,
     layout |-> LayoutPreparedFor(next_size),
     depot |-> DepotPreparedFor(new_size),
     copied |-> {}, partitions_moved |-> {},
     completion |-> [result |-> "VDO_SUCCESS", complete |-> FALSE],
     waiter |-> FALSE,
     sub_task |-> [result |-> "VDO_SUCCESS"],
     pending |-> "none", started |-> <<>>, results |-> <<>>,
     requested |-> 0, returned |-> "none"]

\* The operation of a phase is started with the reset sub-task as its
\* parent.
StartGrowOperation(st, operation) ==
    [st EXCEPT !.vdo.sub_task.result = "VDO_SUCCESS",
               !.vdo.pending = operation,
               !.vdo.started = Append(@, operation)]

\* start_vdo_operation_with_waiter for VDO_ADMIN_STATE_SUSPENDED_OPERATION:
\* a suspended VDO starts the operation and the waiter waits for its end;
\* from any other state the waiter is finished with
\* VDO_INVALID_ADMIN_STATE.
start_vdo_operation_with_waiter(v) ==
    IF v.admin_state = "VDO_ADMIN_STATE_SUSPENDED"
    THEN [v EXCEPT !.admin_state = "VDO_ADMIN_STATE_SUSPENDED_OPERATION",
                   !.waiter = TRUE]
    ELSE [v EXCEPT
             !.completion = [set_vdo_completion_result(
                                 @, "VDO_INVALID_ADMIN_STATE")
                                 EXCEPT !.complete = TRUE]]

\* finish_vdo_operation: the operation in progress ends, the VDO is
\* suspended again and the waiter is finished with the result.  Nothing
\* happens when no operation is in progress.
finish_vdo_operation(v, result) ==
    IF v.admin_state = "VDO_ADMIN_STATE_SUSPENDED_OPERATION"
    THEN [v EXCEPT
             !.admin_state = "VDO_ADMIN_STATE_SUSPENDED",
             !.waiter = FALSE,
             !.completion = IF v.waiter
                            THEN [set_vdo_completion_result(@, result)
                                      EXCEPT !.complete = TRUE]
                            ELSE @]
    ELSE v

\* The end of grow_physical_callback, after the switch.
FinishGrow(st) ==
    [st EXCEPT !.vdo = finish_vdo_operation(
                           [@ EXCEPT !.layout = finish_vdo_layout_growth(@),
                                     !.pending = "none"],
                           st.vdo.sub_task.result)]

\* A variant of grow_physical_callback which uses the new slabs before the
\* components are saved.
grow_physical_callback_using_slabs_first(st) ==
    LET phase == st.vdo.phase
        next == [st EXCEPT !.vdo.phase = @ + 1]
    IN  IF phase = GROW_PHYSICAL_PHASE_START
        THEN IF next.notifier.read_only
             THEN FinishGrow([next EXCEPT
                                 !.vdo.sub_task.result = "VDO_READ_ONLY"])
             ELSE LET started ==
                          [next EXCEPT
                              !.vdo = start_vdo_operation_with_waiter(@)]
                  IN  IF started.vdo.waiter
                      THEN StartGrowOperation(
                               started, "copy_RECOVERY_JOURNAL_PARTITION")
                      ELSE started
        ELSE IF phase = GROW_PHYSICAL_PHASE_COPY_SUMMARY
        THEN StartGrowOperation(next, "copy_SLAB_SUMMARY_PARTITION")
        ELSE IF phase = GROW_PHYSICAL_PHASE_UPDATE_COMPONENTS
        THEN StartGrowOperation(next, "vdo_use_new_slabs")
        ELSE IF phase = GROW_PHYSICAL_PHASE_USE_NEW_SLABS
        THEN StartGrowOperation(
                 [next EXCEPT
                     !.vdo.layout = grow_vdo_layout(@),
                     !.vdo.physical_blocks =
                         grow_vdo_layout(next.vdo.layout).size,
                     !.vdo.depot = update_vdo_slab_depot_size(@)],
                 "save_vdo_components")
        ELSE IF phase = GROW_PHYSICAL_PHASE_END
        THEN FinishGrow([next EXCEPT
                            !.vdo.partitions_moved =
                                {"slab_summary", "recovery_journal"}])
        ELSE IF phase = GROW_PHYSICAL_PHASE_ERROR
        THEN FinishGrow([next EXCEPT
                            !.notifier = vdo_enter_read_only_mode(
                                             @, next.vdo.sub_task.result)])
        ELSE FinishGrow([next EXCEPT
                            !.vdo.sub_task.result = "UDS_BAD_STATE"])

\* grow_physical_callback: the switch on admin_completion->phase++, then
\* the end of the growth unless the phase has returned.
grow_physical_callback(st) ==
    LET phase == st.vdo.phase
        next == [st EXCEPT !.vdo.phase = @ + 1]
    IN  IF phase = GROW_PHYSICAL_PHASE_START
        THEN IF next.notifier.read_only
             THEN FinishGrow([next EXCEPT
                                 !.vdo.sub_task.result = "VDO_READ_ONLY"])
             ELSE LET started ==
                          [next EXCEPT
                              !.vdo = start_vdo_operation_with_waiter(@)]
                  IN  IF started.vdo.waiter
                      THEN StartGrowOperation(
                               started, "copy_RECOVERY_JOURNAL_PARTITION")
                      ELSE started
        ELSE IF phase = GROW_PHYSICAL_PHASE_COPY_SUMMARY
        THEN StartGrowOperation(next, "copy_SLAB_SUMMARY_PARTITION")
        ELSE IF phase = GROW_PHYSICAL_PHASE_UPDATE_COMPONENTS
        THEN StartGrowOperation(
                 [next EXCEPT
                     !.vdo.layout = grow_vdo_layout(@),
                     !.vdo.physical_blocks =
                         grow_vdo_layout(next.vdo.layout).size,
                     !.vdo.depot = update_vdo_slab_depot_size(@)],
                 "save_vdo_components")
        ELSE IF phase = GROW_PHYSICAL_PHASE_USE_NEW_SLABS
        THEN StartGrowOperation(next, "vdo_use_new_slabs")
        ELSE IF phase = GROW_PHYSICAL_PHASE_END
        THEN FinishGrow([next EXCEPT
                            !.vdo.partitions_moved =
                                {"slab_summary", "recovery_journal"}])
        ELSE IF phase = GROW_PHYSICAL_PHASE_ERROR
        THEN FinishGrow([next EXCEPT
                            !.notifier = vdo_enter_read_only_mode(
                                             @, next.vdo.sub_task.result)])
        ELSE FinishGrow([next EXCEPT
                            !.vdo.sub_task.result = "UDS_BAD_STATE"])

\* handle_growth_error
handle_growth_error(st) ==
    grow_physical_callback(
        [st EXCEPT !.vdo.phase = GROW_PHYSICAL_PHASE_ERROR])

\* run_vdo_completion_callback of the sub-task of a grow: its error handler
\* is handle_growth_error.
run_grow_completion_callback(st) ==
    IF st.vdo.sub_task.result # "VDO_SUCCESS"
    THEN handle_growth_error(st)
    ELSE grow_physical_callback(st)

\* What the operation a phase started has done when it finishes well: a
\* partition is copied to the next layout, the super block holds the
\* physical size, the new slabs are in use.
GrowOperationDone(v, operation) ==
    IF operation = "copy_RECOVERY_JOURNAL_PARTITION"
    THEN [v EXCEPT !.copied = @ \cup {"RECOVERY_JOURNAL_PARTITION"}]
    ELSE IF operation = "copy_SLAB_SUMMARY_PARTITION"
    THEN [v EXCEPT !.copied = @ \cup {"SLAB_SUMMARY_PARTITION"}]
    ELSE IF operation = "save_vdo_components"
    THEN [v EXCEPT !.saved_physical_blocks = v.physical_blocks]
    ELSE [v EXCEPT !.depot.new_slabs = "in_use"]

\* perform_vdo_grow_physical, up to the launch of the admin operation.
perform_vdo_grow_physical(st, new_physical_blocks) ==
    LET v == [st.vdo EXCEPT !.requested = new_physical_blocks]
    IN  IF v.physical_blocks = new_physical_blocks
        THEN [st EXCEPT !.vdo = [v EXCEPT !.pc = "done",
                                          !.returned = "VDO_SUCCESS"]]
        ELSE IF new_physical_blocks # get_next_vdo_layout_size(v.layout)
        THEN [st EXCEPT
                 !.vdo = [v EXCEPT
                             !.layout = finish_vdo_layout_growth(@),
                             !.depot = vdo_abandon_new_slabs(@),
                             !.pc = "done",
                             !.returned = "VDO_PARAMETER_MISMATCH"]]
        ELSE IF get_vdo_slab_depot_new_size(v.depot)
                    # vdo_get_next_block_allocator_partition_size(v.layout)
        THEN [st EXCEPT
                 !.vdo = [v EXCEPT !.pc = "done",
                                   !.returned = "VDO_PARAMETER_MISMATCH"]]
        ELSE LET operation ==
                     grow_physical_callback([st EXCEPT !.vdo = v])
             IN  [operation EXCEPT !.vdo.pc = "growing"]

\* perform_vdo_admin_operation returns the result of the admin completion
\* once it is complete, and perform_vdo_grow_physical returns it.
ReturnWhenGrown(v) ==
    IF v.pc = "growing" /\ v.completion.complete
    THEN [v EXCEPT !.pc = "done", !.returned = v.completion.result]
    ELSE v

GrowStep(st) ==
    /\ grow' = ReturnWhenGrown(st.vdo)
    /\ notifier' = st.notifier
    /\ UNCHANGED <<compressed_fragment, resume>>
    /\ OperationFrame

\* perform_vdo_grow_physical
PerformVdoGrowPhysical(new_physical_blocks) ==
    /\ grow.pc = "prepared"
    /\ GrowStep(perform_vdo_grow_physical(
           [vdo |-> grow, notifier |-> notifier], new_physical_blocks))

\* The operation a phase started finishes with a result and the sub-task
\* completion comes back to the admin completion's callback.
GrowSubTaskCallback(result) ==
    /\ grow.pc = "growing"
    /\ grow.pending # "none"
    /\ GrowStep(run_grow_completion_callback(
           [vdo |-> [(IF result = "VDO_SUCCESS"
                      THEN GrowOperationDone(grow, grow.pending)
                      ELSE grow)
                        EXCEPT
                        !.sub_task = set_vdo_completion_result(@, result),
                        !.pending = "none",
                        !.results = Append(@, result)],
            notifier |-> notifier]))

GrowIdle == grow = [pc |-> "idle"]

\* A suspended or running VDO which is prepared to grow, or not, or whose
\* depot has no new slabs for the next layout.
InitGrow ==
    grow \in {VdoBeforeGrow(admin_state, next_size, new_size) :
                 admin_state \in {"VDO_ADMIN_STATE_SUSPENDED",
                                  "VDO_ADMIN_STATE_NORMAL_OPERATION"},
                 next_size \in {0} \cup
                               (OldPhysicalBlocks + 1)..MaxPhysicalBlocks,
                 new_size \in 0..(MaxPhysicalBlocks - LayoutOverhead)}
    /\ grow.depot.new_size \in
           {0, vdo_get_next_block_allocator_partition_size(grow.layout)}

NextGrow ==
    \/ \E new_physical_blocks \in RequestedSizes :
          PerformVdoGrowPhysical(new_physical_blocks)
    \/ \E result \in SubTaskResults : GrowSubTaskCallback(result)

\* No fragment is being read and no administrative operation is running.
OperationsIdle == FragmentIdle /\ ResumeIdle /\ GrowIdle

(***************************************************************************)
(* SPECIFICATIONS                                                          *)
(***************************************************************************)
\* No metadata subsystem is in use.
MetadataIdle ==
    /\ LockInit /\ VolumeIdle /\ ScrubIdle /\ CacheIdle /\ PackerIdle
    /\ DirtyIdle

\* No VIO pool, lookup or logical block lock is in use.
RequestsIdle == PoolIdle /\ MappingIdle /\ LogicalIdle

\* The lock counter and the journal before any block is used.
InitLock ==
    LockInit /\ VolumeIdle /\ ScrubIdle /\ CacheIdle /\ PackerIdle /\ DirtyIdle
    /\ RequestsIdle /\ OperationsIdle

SpecLock == InitLock /\ [][NextLock]_vars

\* A volume about to be probed.
InitVolumeSearch ==
    LockInit /\ InitVolume /\ ScrubIdle /\ CacheIdle /\ PackerIdle /\ DirtyIdle
    /\ RequestsIdle /\ OperationsIdle

SpecVolume == InitVolumeSearch /\ [][NextVolume]_vars

\* A scrubber whose slabs have been registered at load.
InitScrubber ==
    LockInit /\ VolumeIdle /\ InitScrub /\ CacheIdle /\ PackerIdle /\ DirtyIdle
    /\ RequestsIdle /\ OperationsIdle

SpecScrub == InitScrubber /\ [][NextScrub]_vars

\* An empty page cache in a writable VDO.
InitPageCache ==
    LockInit /\ VolumeIdle /\ ScrubIdle /\ InitCache /\ PackerIdle /\ DirtyIdle
    /\ RequestsIdle /\ OperationsIdle

SpecCache == InitPageCache /\ [][NextCache]_vars

\* An empty page cache, in read-only rebuild mode or not
\* (set_vdo_page_cache_rebuild_mode).
InitPageLoad ==
    /\ LockInit /\ VolumeIdle /\ ScrubIdle /\ PackerIdle /\ DirtyIdle
    /\ RequestsIdle /\ OperationsIdle
    /\ \E rebuilding \in BOOLEAN :
          cache = [CacheAfterMake.cache EXCEPT !.rebuilding = rebuilding]
    /\ completions = CacheAfterMake.comps
    /\ page_refs = CacheAfterMake.refs
    /\ history = CacheAfterMake.hist

\* Pages are asked for and released, and their reads end well or not.
NextLoad ==
    \/ \E r \in Requesters, pbn \in Pbns, writable \in BOOLEAN :
          GetPageCounted(r, pbn, writable, MaxLoadRequests)
    \/ \E r \in Requesters : GetMapping(r)
    \/ \E i \in Slots, result \in {"VDO_SUCCESS", "VDO_IO_ERROR"},
          validity \in PageValidities :
          ReadEnds(i, result, validity)

SpecLoad == InitPageLoad /\ [][NextLoad]_vars

SpecZone == InitPageCache /\ [][NextZone]_vars

SpecDiscard == InitPageCache /\ [][NextDiscard]_vars

\* The holder of a page releases it: its callback runs to the release.
SomePageReleased == \E r \in Requesters : GetMapping(r)

\* The read of a page ends, well or not.
SomeReadEnds == \E i \in Slots : PageRead(i) \/ PageReadError(i)

\* Every page granted is released in the end (the callback of a granted
\* completion runs on the cache's thread and releases it), and every read
\* issued ends (the storage answers every vio).  The requests are counted,
\* so no behaviour has releases or read ends without end: a behaviour
\* which leaves one page held or one read unanswered for ever ends in a
\* state where a release or a read end is possible and none happens, which
\* these two conditions exclude.
PressureFairness == WF_vars(SomePageReleased) /\ WF_vars(SomeReadEnds)

\* The cache under pressure whose pages are released and whose I/O ends.
SpecPressure == InitPageCache /\ [][NextPressure]_vars /\ PressureFairness

\* A packer with empty bins, and data_vios on their way to it.
InitPackerBins ==
    /\ LockInit /\ VolumeIdle /\ ScrubIdle /\ CacheIdle /\ InitPacker
    /\ DirtyIdle /\ RequestsIdle /\ OperationsIdle

SpecPacker == InitPackerBins /\ [][NextPacker]_vars

SpecDrain == InitPackerBins /\ [][NextDrain]_vars /\ DrainFairness

\* An empty page cache whose dirty lists start in period 1.
InitDirtyLists ==
    /\ LockInit /\ VolumeIdle /\ ScrubIdle /\ InitCache /\ PackerIdle
    /\ InitDirty /\ RequestsIdle /\ OperationsIdle

SpecDirty == InitDirtyLists /\ [][NextDirty]_vars

\* A VIO pool with every entry available.
InitVioPool ==
    MetadataIdle /\ InitPool /\ MappingIdle /\ LogicalIdle /\ OperationsIdle

SpecPool == InitVioPool /\ [][NextPool]_vars

\* Every entry a fetched page can hold, for every kind of data_vio.
InitFetchedPage ==
    MetadataIdle /\ PoolIdle /\ InitMapping /\ LogicalIdle /\ OperationsIdle

SpecMapping == InitFetchedPage /\ [][NextMapping]_vars

\* A logical zone with no request.
InitLbnLock ==
    MetadataIdle /\ PoolIdle /\ MappingIdle /\ LogicalIdle /\ OperationsIdle

SpecLbnLock == InitLbnLock /\ [][NextLbnLock]_vars

\* A compressed block read for a mapping.
InitFragmentRead ==
    MetadataIdle /\ RequestsIdle /\ InitFragment /\ ResumeIdle /\ GrowIdle

SpecFragment == InitFragmentRead /\ [][NextFragment]_vars

\* A VDO about to be resumed.
InitVdoResume ==
    MetadataIdle /\ RequestsIdle /\ FragmentIdle /\ InitResume /\ GrowIdle

SpecResume == InitVdoResume /\ [][NextResume]_vars

\* A VDO, read-only or not, about to be told to grow.
InitVdoGrow ==
    /\ LockInit /\ VolumeIdle /\ CacheIdle /\ PackerIdle /\ DirtyIdle
    /\ RequestsIdle /\ FragmentIdle /\ ResumeIdle /\ InitGrow
    /\ \E st \in {ScrubberAfterLoad(<<>>)} :
          /\ scrubber = st.scrubber
          /\ slab_state = st.slab_state
          /\ notifier \in {st.notifier,
                           vdo_enter_read_only_mode(st.notifier,
                                                    "VDO_IO_ERROR")}

SpecGrow == InitVdoGrow /\ [][NextGrow]_vars

(***************************************************************************)
(* Claims about the lock counter and reaping.                              *)
(***************************************************************************)
\* C2: the journal head never advances past a block on which any zone (or
\* the journal zone, through a per-entry lock) still holds a lock, nor past
\* the active block: every block passed by an advance of the head had a zero
\* count in every zone at that moment and was older than the active block.
C2_HeadNeverPassesLockedBlock ==
    [][\A s \in head .. (head' - 1) :
          /\ s < tail - 1
          /\ journal_counters[BlockNumber(s)] = 0
          /\ \A k \in ZoneKeys : counters[k][BlockNumber(s)] = 0]_vars

\* C2 witness: block 1 has been reaped and the head now rests on block 2,
\* which a logical zone still locks although a newer block is active.
C2_Witness ==
    /\ head = 2
    /\ tail = 4
    /\ journal_counters[BlockNumber(2)] = 0
    /\ counters[<<"logical", 0>>][BlockNumber(2)] > 0

\* C5: for every lock and zone type, the atomic zone count equals the number
\* of zones whose own count for that lock is non-zero.
C5_ZoneCountIsNumberOfHoldingZones ==
    \A t \in ZoneTypes, l \in Locks :
        zone_counts[t][l] =
            Cardinality({k \in ZonesOfType(t) : counters[k][l] # 0})

\* C5 witness: two zones hold the same lock, one of them twice.
C5_Witness ==
    \E l \in Locks :
        /\ counters[<<"logical", 0>>][l] = 2
        /\ counters[<<"logical", 1>>][l] = 1
        /\ zone_counts["logical"][l] = 2

\* C6: a notification is launched exactly when a zone count reaches 0 while
\* the counter is neither suspended nor awaiting an acknowledgement; at most
\* one notification is outstanding, and none is launched while suspended.
C6_NotificationProtocol ==
    /\ [](launched <= 1 /\ (launched = 1 => lcState = "NOTIFYING"))
    /\ [][LET reached == \E t \in ZoneTypes, l \in Locks :
                             zone_counts[t][l] > 0 /\ zone_counts'[t][l] = 0
          IN  /\ (reached /\ lcState = "NOT_NOTIFYING") => launched' = launched + 1
              /\ launched' > launched => (reached /\ lcState = "NOT_NOTIFYING")]_vars

\* C6 witness: a zone count has reached 0 while suspended, a notification
\* from before is acknowledged, and nothing is outstanding.
C6_Witness ==
    /\ lcState = "SUSPENDED"
    /\ launched = 0
    /\ head < tail - 1
    /\ ~ is_vdo_lock_locked(BlockNumber(head), "logical")
    /\ ~ is_vdo_lock_locked(BlockNumber(head), "physical")

(***************************************************************************)
(* Claims about the chapter boundary search.                               *)
(***************************************************************************)
ReadableChapters == {p \in DOMAIN volume.vcn : volume.vcn[p] # UINT64_MAX}

ReadableVcns == {volume.vcn[p] : p \in ReadableChapters}

BadChapterCount == volume.chapterLimit - Cardinality(ReadableChapters)

\* The readable chapters form one circular arc along which the chapter
\* numbers increase: the bad run lies between the highest and the lowest
\* readable chapter.
BadRunAtDiscontinuity ==
    LET n == volume.chapterLimit
        len == Cardinality(ReadableChapters)
    IN  \E e \in 0 .. (n - 1) :
            /\ \A i \in 0 .. (len - 1) : ((e + i) % n) \in ReadableChapters
            /\ \A i \in 0 .. (len - 2) :
                  volume.vcn[(e + i) % n] < volume.vcn[(e + i + 1) % n]

SearchFinishedCleanly ==
    /\ search.pc = "done"
    /\ volume.errors = {}
    /\ ReadableChapters # {}

ReturnsBoundaries ==
    /\ search.lowestVCN = Min(ReadableVcns)
    /\ search.highestVCN = Max(ReadableVcns)

\* C8 as claimed, for a run of fewer than maxBadChapters bad chapters lying
\* between the highest and the lowest readable chapter (the wrap-around and
\* chapter 0 included): the search succeeds and returns the minimum and the
\* maximum of the readable chapter numbers.
C8_Original_ReturnsBoundaries ==
    (/\ SearchFinishedCleanly
     /\ BadRunAtDiscontinuity
     /\ BadChapterCount < volume.maxBadChapters)
        => (search.result = "UDS_SUCCESS" /\ ReturnsBoundaries)

\* C9 as claimed: a run of at most maxBadChapters contiguous bad chapters is
\* tolerated, and only a longer run fails with UDS_CORRUPT_COMPONENT.
C9_Original_RunOfMaxTolerated ==
    (SearchFinishedCleanly /\ BadRunAtDiscontinuity)
        => /\ BadChapterCount <= volume.maxBadChapters
                 => search.result = "UDS_SUCCESS"
           /\ search.result = "UDS_CORRUPT_COMPONENT"
                 => BadChapterCount > volume.maxBadChapters

(***************************************************************************)
(* Claims about the slab scrubber.                                         *)
(***************************************************************************)
\* The scrubber finds fatal corruption: the journal just read has a block
\* whose header is inconsistent or an entry beyond the slab's bounds.
FindsCorruptJournal ==
    /\ scrubber.pc = "reading"
    /\ \E journal \in ScrubJournals :
          /\ ApplyBlocks(journal, <<>>).result = "VDO_CORRUPT_JOURNAL"
          /\ ApplyJournalEntries(journal)

\* The scrubber starts scrubbing a slab.
StartsScrubbingASlab ==
    /\ scrubber'.pc = "scrubbing"
    /\ (scrubber.pc # "scrubbing" \/ scrubber'.slab # scrubber.slab)

\* C10: when the scrubber finds fatal corruption in a slab journal, the VDO
\* is in read-only mode afterwards, entered with VDO_CORRUPT_JOURNAL unless
\* it was read-only already; the scrub operation is completed with an error
\* (VDO_CORRUPT_JOURNAL, the first error of the operation); and once the VDO
\* is read-only no slab is started.
C10_CorruptionStopsScrubbing ==
    /\ [][FindsCorruptJournal =>
            /\ notifier'.read_only
            /\ (~notifier.read_only => notifier'.error = "VDO_CORRUPT_JOURNAL")
            /\ scrubber'.completion.complete
            /\ scrubber'.completion.result = "VDO_CORRUPT_JOURNAL"
            /\ scrubber'.pc = "idle"
            /\ scrubber'.slab = scrubber.slab]_vars
    /\ [][notifier.read_only => ~StartsScrubbingASlab]_vars

\* C10 witness: the scrub has finished with VDO_CORRUPT_JOURNAL and the VDO
\* is read-only because of it, while a slab still waits to be scrubbed.
C10_Witness ==
    /\ notifier.read_only
    /\ notifier.error = "VDO_CORRUPT_JOURNAL"
    /\ scrubber.completion.complete
    /\ scrubber.completion.result = "VDO_CORRUPT_JOURNAL"
    /\ scrubber.pc = "idle"
    /\ get_next_slab(scrubber) # "NULL"

\* The journal just read has a block between head and tail whose header is
\* inconsistent, and it is applied.
AppliesJournalWithCorruptBlock ==
    /\ scrubber.pc = "reading"
    /\ \E journal \in ScrubJournals :
          /\ \E b \in DOMAIN journal : ~journal[b].valid
          /\ ApplyJournalEntries(journal)

\* C11 as claimed: when the journal of the slab being scrubbed contains a
\* corrupt block anywhere between its head and its tail, none of the slab's
\* entries is applied: the reference counts after the failed scrub are the
\* reference counts before it.
C11_Original_NothingAppliedOnCorruption ==
    [][AppliesJournalWithCorruptBlock => slab_state' = slab_state]_vars

\* C12 as claimed: no entry whose slab block number lies outside
\* [0, slab size) is ever applied to the reference counts, an entry whose
\* slab block number equals the slab size included.
C12_Original_OutOfRangeNeverApplied ==
    \A s \in ScrubSlabIds :
        \A k \in DOMAIN slab_state[s].applied :
            slab_state[s].applied[k] \in 0 .. (SlabBlocks - 1)

\* The slab started by this step waits at normal priority.
StartsNormalPrioritySlab ==
    /\ StartsScrubbingASlab
    /\ slab_state'[scrubber'.slab].status = "VDO_SLAB_REQUIRES_SCRUBBING"

\* C13: whenever the scrubber starts a slab of normal priority, the
\* high-priority list is empty (slabs registered as high priority while
\* another slab was being scrubbed included), and the operation under way
\* is not one which requested high-priority scrubbing only.
C13_HighPriorityFirst ==
    [][StartsNormalPrioritySlab =>
          /\ scrubber'.high_priority_slabs = <<>>
          /\ ~(/\ scrubber'.high_priority_requested
               /\ ~scrubber'.completion.complete)]_vars

\* C13 witness: a slab was registered as high priority while a slab of
\* normal priority is being scrubbed, under an operation which scrubs all
\* slabs.
C13_Witness ==
    /\ scrubber.pc \in {"scrubbing", "reading", "saving"}
    /\ slab_state[scrubber.slab].status = "VDO_SLAB_REQUIRES_SCRUBBING"
    /\ scrubber.high_priority_slabs # <<>>
    /\ ~scrubber.high_priority_requested

(***************************************************************************)
(* Claims about the page cache and the pages' recovery locks.              *)
(***************************************************************************)
\* Page i holds one reference, on the block its recovery lock names.
HoldsItsLock(i) ==
    /\ cache.infos[i].recovery_lock \in LockSeqs
    /\ page_refs[i] = [s \in LockSeqs |->
                          IF s = cache.infos[i].recovery_lock THEN 1 ELSE 0]

\* C1: a page's reference on its recovery journal block is released only
\* by a step in which a write of the page ends successfully and is not
\* issued again (the page was already initialized): a page whose write is
\* queued or in flight holds its reference, and no step in which the write
\* fails, or ends for a page which was not initialized and is written
\* again, releases it.
C1_ReleasedOnlyAfterSuccessfulWrite ==
    \A i \in Slots :
        /\ is_outgoing(cache.infos[i]) => HoldsItsLock(i)
        /\ i \in history.released
           => history.write_end
                  = <<[slot |-> i, successful |-> TRUE, initialized |-> TRUE]>>

\* The write of a page has ended successfully and the page has released
\* its reference.
C1_Witness ==
    \E i \in Slots :
        /\ i \in history.released
        /\ cache.infos[i].state = "PS_RESIDENT"
        /\ cache.infos[i].recovery_lock = 0
        /\ PageRefTotal(page_refs, i) = 0

\* C3: every dirty page holds exactly one journal block reference, on the
\* block its recovery lock names, and that block is the one of lowest
\* sequence number among the blocks with an update of the page which is not
\* written out (so an update from an older block than the one held moves
\* the reference to the older block).
C3_DirtyPageHoldsEarliestBlock ==
    \A i \in Slots :
        is_dirty(cache.infos[i])
        => /\ HoldsItsLock(i)
           /\ history.unwritten[i] # <<>>
           /\ cache.infos[i].recovery_lock
                  = Min(SeqRange(history.unwritten[i]))

\* A dirty page whose first unwritten update came from a newer block than a
\* later one: its reference has moved to the older block.
C3_Witness ==
    \E i \in Slots :
        /\ is_dirty(cache.infos[i])
        /\ Len(history.unwritten[i]) >= 2
        /\ history.unwritten[i][1] > cache.infos[i].recovery_lock

\* C4 as stated: an update acquires a reference exactly when the page holds
\* none or the update's journal block is newer than the one held.
C4_Original_AcquireOnNewer ==
    \A k \in DOMAIN history.updates :
        LET u == history.updates[k]
        IN  u.acquired <=> (u.old_locked = 0 \/ u.new_locked > u.old_locked)

\* C4, amended: an update acquires a reference exactly when the page holds
\* none or the update's journal block is older (of lower sequence number)
\* than the one held; an update from the block held or from a newer one
\* acquires nothing.
C4_AcquireOnFirstDirtyingOrOlder ==
    \A k \in DOMAIN history.updates :
        LET u == history.updates[k]
        IN  u.acquired <=> (u.old_locked = 0 \/ u.new_locked < u.old_locked)

\* An update from an older block than the one held has acquired a
\* reference.
C4_Witness ==
    \E k \in DOMAIN history.updates :
        /\ history.updates[k].old_locked # 0
        /\ history.updates[k].new_locked < history.updates[k].old_locked
        /\ history.updates[k].acquired

\* C7: every selection of a page to discard takes the least recently used
\* of the pages which are not busy and not in flight; when there is no such
\* page none is taken, cache pressure is reported and the waiters for a
\* free page stay queued.
C7_VictimIsLeastRecentlyUsed ==
    \A k \in DOMAIN history.selections :
        LET sel == history.selections[k]
        IN  /\ sel.victim = sel.least_recent
            /\ sel.victim = 0 => sel.pressure_reported /\ sel.waiters_kept

\* A selection among two pages a discard could take.
C7_Witness ==
    \E k \in DOMAIN history.selections :
        /\ history.selections[k].candidates >= 2
        /\ history.selections[k].victim # 0

\* Page i is scheduled for save: on the outgoing list, or waiting to be put
\* there as soon as nothing holds it.
IsScheduled(info) ==
    is_outgoing(info) \/ info.write_status = "WRITE_STATUS_DEFERRED"

\* C14 as claimed: a drain which is a suspend schedules every dirty page
\* for save, and a drain which is a save schedules none.
C14_Original_SuspendFlushesAllSaveNone ==
    [][\A operation \in DrainOperations, tree_zone_active \in BOOLEAN :
          DrainZone(operation, tree_zone_active)
          => IF is_vdo_state_suspending(operation)
             THEN \A i \in Slots :
                      is_dirty(cache.infos[i]) => IsScheduled(cache'.infos[i])
             ELSE \A i \in Slots :
                      is_dirty(cache.infos[i]) => is_dirty(cache'.infos[i])]_vars

\* C15: a page is put on the outgoing list only by a step which leaves it
\* with a busy count of 0; a page whose write was asked for while it was
\* held (its write is deferred) is held and dirty, and the step in which
\* its busy count reaches 0 puts it on the outgoing list.
C15_RequestedWriteWaitsForIdle ==
    /\ [](\A i \in Slots :
             cache.infos[i].write_status = "WRITE_STATUS_DEFERRED"
             => cache.infos[i].busy > 0 /\ is_dirty(cache.infos[i]))
    /\ [][\A i \in Slots :
             /\ (is_outgoing(cache'.infos[i]) /\ ~is_outgoing(cache.infos[i]))
                => cache'.infos[i].busy = 0
             /\ (/\ cache.infos[i].write_status = "WRITE_STATUS_DEFERRED"
                 /\ cache'.infos[i].busy = 0)
                => /\ is_outgoing(cache'.infos[i])
                   /\ i \in SeqRange(cache'.outgoing_list)
                   /\ cache'.outstanding_writes
                          = cache.outstanding_writes + 1]_vars

\* C15 witness: the write of a dirty page was asked for by a holder of the
\* page (the page is still on the dirty lists, so it did not expire), and
\* it is deferred while the page is held.
C15_Witness ==
    \E i \in Slots :
        /\ cache.infos[i].write_status = "WRITE_STATUS_DEFERRED"
        /\ i \in cache.dirty_lists
        /\ cache.infos[i].recovery_lock # 0
        /\ cache.infos[i].busy > 0

\* A write of page i is issued to the storage by this step: the page's
\* write starts, or its write ends and is issued again (which marks the
\* page initialized).
IssuesPageWrite(i) ==
    /\ cache'.infos[i].io = "writing"
    /\ \/ cache.infos[i].io # "writing"
       \/ cache'.infos[i].initialized # cache.infos[i].initialized

IsWaiting(completion) == completion.phase \in {"waiting_page", "waiting_free"}

\* C16 as claimed: a failed page write leaves the VDO read-only and no
\* requester waiting on the cache; and once a page write has failed, a
\* writable request is refused at once and no page write is issued to the
\* storage.
C16_Original_NoWriteAfterFailedWrite ==
    [][/\ (~history.write_failed /\ history'.write_failed)
          => /\ notifier'.read_only
             /\ \A r \in Requesters : ~IsWaiting(completions'[r])
       /\ history.write_failed
          => /\ \A r \in Requesters, pbn \in Pbns :
                    GetPage(r, pbn, TRUE) => completions' = completions
             /\ \A i \in Slots : ~IssuesPageWrite(i)]_vars

\* The drain of the zone finishes in this step.
DrainFinishes ==
    /\ ~is_vdo_state_quiescent(cache.zone.state)
    /\ is_vdo_state_quiescent(cache'.zone.state)

NonCanceled(b) ==
    {d \in SeqRange(packer.bins[b].incoming) :
        ~data_vios[d].state.may_not_compress}

\* A step which writes every input bin: a flush or a drain of a packer in
\* normal operation.
WritesEveryBin ==
    /\ vdo_is_state_normal(packer.state)
    /\ FlushPacker \/ IncrementFlushGeneration \/ DrainPacker

\* The data_vio, which was in a bin or has been put in one by this step, has
\* left the packer in this step and goes on with the mapping it had: the
\* block of its own allocation, uncompressed.
ContinuesUncompressed(d) ==
    /\ data_vios[d].where \in {"compressing", "packer"}
    /\ data_vios'[d].where = "continued"
    /\ data_vios'[d].state.status = "VIO_POST_PACKER"
    /\ data_vios'[d].compression.bin = NoBin
    /\ data_vios'[d].new_mapped = data_vios[d].new_mapped
    /\ data_vios'[d].new_mapped =
           [pbn |-> data_vios[d].allocation,
            state |-> VDO_MAPPING_STATE_UNCOMPRESSED]

\* The data_vios whose compressed write is submitted in this step.
SubmittedAgents ==
    {d \in DataVios :
        data_vios'[d].where = "writing" /\ data_vios[d].where # "writing"}

\* C18: when a bin is written with exactly one data_vio whose compression
\* has not been canceled, no compressed block is written for it: packing is
\* aborted for the data_vio, which continues as an uncompressed write of
\* the block it allocated.  In a step which writes every bin (a flush or a
\* drain), the one data_vio of each such bin continues uncompressed; in
\* every step, every batch of one taken by write_bin continues uncompressed,
\* and the compressed blocks written (and the writes submitted) are those of
\* the batches of two or more.
C18_SingleDataVioIsNotCompressed ==
    [][/\ \A b \in BinIds :
              (Cardinality(NonCanceled(b)) = 1 /\ WritesEveryBin) =>
                  \A d \in NonCanceled(b) :
                      /\ ContinuesUncompressed(d)
                      /\ d \notin SubmittedAgents
       /\ \A k \in DOMAIN packer'.written :
              packer'.written[k].size = 1 =>
                  /\ ContinuesUncompressed(packer'.written[k].agent)
                  /\ packer'.written[k].agent \notin SubmittedAgents
       /\ SubmittedAgents \subseteq
              {packer'.written[k].agent :
                  k \in {j \in DOMAIN packer'.written :
                            packer'.written[j].size >= 2}}
       /\ packer'.statistics.compressed_blocks_written
              - packer.statistics.compressed_blocks_written
          = Cardinality(SubmittedAgents)]_vars

\* A bin holding one data_vio which was not canceled and one which was has
\* been written: the first continues uncompressed, the second waits in the
\* canceled bin, and no compressed block has been written.
C18_Witness ==
    /\ \E k \in DOMAIN packer.written :
           /\ packer.written[k].size = 1
           /\ data_vios[packer.written[k].agent].where = "continued"
           /\ data_vios[packer.written[k].agent].new_mapped.state =
                  VDO_MAPPING_STATE_UNCOMPRESSED
    /\ packer.bins[CanceledBin].incoming # <<>>
    /\ packer.statistics.compressed_blocks_written = 0
    /\ \A d \in DataVios : data_vios[d].where # "writing"

\* The data_vios of the batch of an agent: the agent, then its clients.
BatchOf(agent) == <<agent>> \o Clients(PackerStart, agent)

\* The agents of the compressed writes which are under way.
WritingAgents ==
    {d \in DataVios : data_vios[d].where \in {"writing", "written"}}

\* The data_vios which a compressed write has mapped to a compressed block.
MappedCompressed ==
    {d \in DataVios :
        /\ data_vios[d].where = "continued"
        /\ vdo_is_state_compressed(data_vios[d].new_mapped.state)}

\* C19: in every compressed block written by the packer the data_vios of
\* the batch have pairwise distinct slots, the agent slot 0 and the clients
\* slots 1, 2, ... in the order in which they were packed, each with its
\* size in the header of the block; and no two data_vios are ever mapped to
\* the same compressed slot of the same physical block.
C19_DistinctSlots ==
    /\ \A agent \in WritingAgents :
           LET batch == BatchOf(agent)
               n == Len(batch)
           IN  /\ data_vios[agent].compression.slot = 0
               /\ \A k \in 2 .. n :
                      /\ data_vios[batch[k]].compression.slot = n + 1 - k
                      /\ data_vios[batch[k]].where = "batch"
               /\ \A j, k \in 1 .. n :
                      j # k => data_vios[batch[j]].compression.slot
                                   # data_vios[batch[k]].compression.slot
               /\ \A k \in 1 .. n :
                      data_vios[agent].scratch_block.sizes[
                          data_vios[batch[k]].compression.slot]
                      = data_vios[batch[k]].compression.size
               /\ n >= 2
               /\ n <= VDO_MAX_COMPRESSION_SLOTS
    /\ \A d \in MappedCompressed :
           data_vios[d].new_mapped.state =
               vdo_get_state_for_slot(data_vios[d].compression.slot)
    /\ \A d1, d2 \in MappedCompressed :
           d1 # d2 => data_vios[d1].new_mapped # data_vios[d2].new_mapped

\* Three data_vios have been written in one compressed block, in slots 0, 1
\* and 2.
C19_Witness ==
    \E agent \in MappedCompressed :
        /\ Cardinality({d \in MappedCompressed :
               data_vios[d].new_mapped.pbn = data_vios[agent].allocation}) = 3
        /\ {data_vios[d].new_mapped.state : d \in MappedCompressed}
               = {vdo_get_state_for_slot(0), vdo_get_state_for_slot(1),
                  vdo_get_state_for_slot(2)}


(***************************************************************************)
(* Claims about the dirty lists.                                           *)
(***************************************************************************)
\* The page in slot i is dirty and no save of it has been scheduled.
DirtyUnscheduled(i) ==
    /\ is_dirty(cache.infos[i])
    /\ ~IsScheduled(cache.infos[i])

\* The pages on the dirty lists which are too old in period: dirtied
\* maximum_age periods before it, or earlier.
TooOldIn(period) ==
    {i \in cache.dirty_lists :
        cache.infos[i].recovery_lock + dirty_lists.maximum_age <= period}

\* C20: a page dirtied in era e (the era of its recovery lock) and not
\* dirtied for an older era is scheduled for save no later than the advance
\* to era e + maximum_age, and a page added with an age of maximum_age or
\* more is expired and scheduled at once.  In every state, no dirty page
\* whose save is not scheduled has an era of maximum_age or more eras ago;
\* an advance of the era hands to the callback exactly the pages of the
\* dirty lists which are too old in the new era, and each is scheduled; a
\* clean page dirtied for an era which is too old already is handed to the
\* callback and scheduled in the same step.
C20_EraAging ==
    /\ [](\A i \in Slots :
              (DirtyUnscheduled(i) /\ cache.infos[i].recovery_lock # 0) =>
                  cache.infos[i].recovery_lock + dirty_lists.maximum_age
                      > CurrentPeriod(dirty_lists))
    /\ [][/\ \A period \in 1 .. MaxEra :
                 AdvanceDirtyPeriod(period) =>
                     /\ dirty_lists'.handed = TooOldIn(period)
                     /\ \A i \in TooOldIn(period) :
                            IsScheduled(cache'.infos[i])
                     /\ CurrentPeriod(dirty_lists') = period
          /\ \A r \in Requesters, new_locked \in LockSeqs :
                 (/\ completions[r].phase = "ready"
                  /\ completions[r].writable
                  /\ ~is_dirty(cache.infos[completions[r].info])
                  /\ new_locked + dirty_lists.maximum_age
                         <= CurrentPeriod(dirty_lists)
                  /\ PutMappingInPeriod(r, new_locked)) =>
                     /\ completions[r].info \in dirty_lists'.handed
                     /\ IsScheduled(cache'.infos[completions[r].info])
                     /\ cache'.infos[completions[r].info].recovery_lock
                            = new_locked]_vars

\* An advance of the era has just scheduled a page which was dirtied exactly
\* maximum_age eras before.
C20_Witness ==
    /\ dirty_lists.operation = "advance_vdo_dirty_lists_period"
    /\ \E i \in dirty_lists.handed :
           /\ IsScheduled(cache.infos[i])
           /\ cache.infos[i].recovery_lock + dirty_lists.maximum_age
                  = CurrentPeriod(dirty_lists)

\* A page added with an age beyond the maximum has just been scheduled.
AddedTooOld ==
    /\ dirty_lists.operation = "add_to_vdo_dirty_lists"
    /\ \E i \in dirty_lists.handed :
           /\ IsScheduled(cache.infos[i])
           /\ cache.infos[i].recovery_lock + dirty_lists.maximum_age
                  < CurrentPeriod(dirty_lists)

(***************************************************************************)
(* Claims about the VIO pool.                                              *)
(***************************************************************************)
\* The requester whose callback the step runs, or NULL.
Granted == vio_pool'.granted

\* The requester gives its entry back in the step.
ReturnsEntry(waiter) ==
    /\ vio_pool.entry[waiter] # NoEntry
    /\ vio_pool'.entry[waiter] = NoEntry

\* C21: the waiters of the VIO pool are served in the order of their calls:
\* a returned entry goes to the requester which has waited longest, and no
\* requester is given an entry while one which asked earlier still waits.
C21_WaitersServedInFifoOrder ==
    [][/\ (Granted.waiter # NULL /\ vio_pool.asked # <<>>) =>
              Granted.waiter = Head(vio_pool.asked)
       /\ \A waiter \in PoolWaiters :
             (ReturnsEntry(waiter) /\ vio_pool.asked # <<>>) =>
                 /\ Granted = [waiter |-> Head(vio_pool.asked),
                               entry |-> vio_pool.entry[waiter]]
                 /\ vio_pool'.asked = Tail(vio_pool.asked)
       /\ WaitersOf(vio_pool'.waiting, vio_pool'.next_waiter) = vio_pool'.asked
      ]_vars

\* An entry was handed to the oldest of several waiting requesters.
C21_Witness ==
    /\ vio_pool.granted.waiter # NULL
    /\ vio_pool.asked # <<>>

\* The entries which requesters have.
HeldEntries ==
    {vio_pool.entry[waiter] : waiter \in PoolWaiters} \ {NoEntry}

\* C30: busy_count is the number of entries held by requesters, busy_count
\* and the available entries add up to the size of the pool, no entry is held
\* by two requesters, and requesters wait only when no entry is available.
C30_PoolAccounting ==
    /\ vio_pool.busy_count = Cardinality(HeldEntries)
    /\ SeqRange(vio_pool.busy) = HeldEntries
    /\ vio_pool.busy_count + Len(vio_pool.available) = vio_pool.size
    /\ SeqRange(vio_pool.available) \cap HeldEntries = {}
    /\ \A w1, w2 \in PoolWaiters :
          (vio_pool.entry[w1] # NoEntry /\ vio_pool.entry[w1] = vio_pool.entry[w2])
              => w1 = w2
    /\ has_waiters(vio_pool.waiting) => vio_pool.available = <<>>
    /\ vio_pool.waiting.queue_length = Len(vio_pool.asked)

\* A returned entry went straight to a waiting requester (it kept its place
\* on the busy list) and every entry is held.
C30_Witness ==
    /\ vio_pool.granted.entry # NoEntry
    /\ vio_pool.busy_count = PoolSize
    /\ vio_pool.granted.entry # vio_pool.busy[Len(vio_pool.busy)]
    /\ vio_pool.asked = <<>>

(***************************************************************************)
(* Claims about the block map lookup.                                      *)
(***************************************************************************)
\* The entry fetched is an invalid mapping: its location is not a valid one,
\* or its PBN has no physical zone.
InvalidMapping ==
    LET mapped == unpack_vdo_block_map_entry(mapping.entry)
    IN  \/ ~vdo_is_valid_location(mapped)
        \/ get_vdo_physical_zone(mapped.pbn, mapping.slab_found).result
              \in {"VDO_OUT_OF_RANGE", "VDO_BAD_MAPPING"}

\* C22: when the entry read from the page is an invalid mapping, a read
\* fails with VDO_BAD_MAPPING, and a write or any other request which is not
\* a read goes on successfully with the logical block unmapped.
C22_InvalidMappingReadFailsWriteUnmapped ==
    (mapping.where = "finished" /\ InvalidMapping) =>
        IF mapping.data_vio.operation = "VIO_READ"
        THEN mapping.data_vio.result = "VDO_BAD_MAPPING"
        ELSE /\ mapping.data_vio.result = "VDO_SUCCESS"
             /\ mapping.data_vio.mapped.state = VDO_MAPPING_STATE_UNMAPPED
             /\ mapping.data_vio.mapped.pbn = VDO_ZERO_BLOCK

\* A read-modify-write has gone on past an entry which names a block outside
\* the depot.
C22_Witness ==
    /\ mapping.where = "finished"
    /\ mapping.data_vio.operation = "VIO_READ_MODIFY_WRITE"
    /\ mapping.data_vio.result = "VDO_SUCCESS"
    /\ unpack_vdo_block_map_entry(mapping.entry).pbn \notin DataPbns \cup {VDO_ZERO_BLOCK}
    /\ mapping.entry.mapping_state = VDO_MAPPING_STATE_UNCOMPRESSED

(***************************************************************************)
(* Claims about the flushes and the slots of the page cache.               *)
(***************************************************************************)
\* The pages the flush under way covers: the head of the outgoing list.
InFlush(c) == SubSeq(c.outgoing_list, 1, c.pages_in_flush)

\* The write of page i is issued by this step at the end of a flush.
WriteStarts(i) ==
    /\ cache.infos[i].io # "writing"
    /\ cache'.infos[i].io = "writing"

MustWaitForWrite(i, writable) ==
    /\ cache.infos[i].pbn # "NO_PAGE"
    /\ \/ is_outgoing(cache.infos[i]) /\ writable
       \/ cache.infos[i].write_status = "WRITE_STATUS_DEFERRED"

\* Requester r is queued on page i after its request in the state after.
QueuedOnPage(after, r, i) ==
    /\ after.comps[r].phase = "waiting_page"
    /\ after.cache.infos[i].waiting = Append(cache.infos[i].waiting, r)
    /\ after.cache.infos[i].busy = cache.infos[i].busy

\* C25 as claimed: every writable get_vdo_page for a page on the outgoing
\* list, and every get_vdo_page for a page whose write is deferred, is
\* queued on the page.
C25_Original_AlwaysQueued ==
    \A r \in Requesters, i \in Slots, writable \in BOOLEAN :
        (completions[r].phase = "idle" /\ MustWaitForWrite(i, writable)) =>
            QueuedOnPage(
                get_vdo_page(CacheCur, r, cache.infos[i].pbn, writable),
                r, i)

\* C25: no writable completion holds a page which is on the outgoing list,
\* a writable completion is given a page only when the page is resident or
\* dirty, and a writable get_vdo_page for an outgoing page or any
\* get_vdo_page for a page whose write is deferred is queued on the page,
\* except that a writable request is refused in a read-only VDO.
C25_OutgoingPageNotHandedToWriter ==
    /\ [](\A r \in Requesters :
             (completions[r].phase = "ready" /\ completions[r].writable) =>
                 is_present(cache.infos[completions[r].info]))
    /\ [](\A r \in Requesters, i \in Slots, writable \in BOOLEAN :
             (completions[r].phase = "idle" /\ MustWaitForWrite(i, writable))
             => LET after == get_vdo_page(CacheCur, r, cache.infos[i].pbn,
                                          writable)
                IN  IF writable /\ notifier.read_only
                    THEN /\ after.comps[r].phase # "ready"
                         /\ after.cache = cache
                    ELSE QueuedOnPage(after, r, i))
    /\ [][\A r \in Requesters :
             (/\ completions'[r].phase = "ready"
              /\ completions[r].phase # "ready"
              /\ completions'[r].writable) =>
                 /\ is_present(cache'.infos[completions'[r].info])
                 /\ ~is_outgoing(cache.infos[completions'[r].info])
                    \/ \E read_initialized \in BOOLEAN :
                          PageWritten(completions'[r].info, read_initialized)
       ]_vars

\* A writable request is queued on a page which is on the outgoing list.
C25_Witness ==
    \E r \in Requesters, i \in Slots :
        /\ completions[r].phase = "waiting_page"
        /\ completions[r].writable
        /\ cache.infos[i].pbn = completions[r].pbn
        /\ is_outgoing(cache.infos[i])
        /\ r \in SeqRange(cache.infos[i].waiting)

\* The completions which hold the page of slot i.
HoldersOf(comps, i) ==
    {r \in Requesters : comps[r].phase = "ready" /\ comps[r].info = i}

\* The write of page i ends successfully in this step.
WriteOfPageEnds(i) ==
    /\ cache.infos[i].io = "writing"
    /\ \E read_initialized \in BOOLEAN : PageWritten(i, read_initialized)

\* C26: a slot is given to another PBN only by a step before which it has no
\* holder other than one which releases it in the step, has no waiters, is
\* not dirty and has no I/O in flight other than a write which ends in the
\* step; a slot loses its PBN otherwise only when
\* its load fails, which leaves no requester with it; the checks of
\* reset_page_info never fail; the page of every holder and of every
\* queued requester is the one it asked for; and a page written for discard
\* which has a holder or a waiter when its write ends stays in the cache
\* with them.
C26_SlotReusedOnlyWhenIdle ==
    /\ [](/\ notifier.error # "UDS_ASSERTION_FAILED"
          /\ \A r \in Requesters :
                completions[r].phase = "ready" =>
                    /\ cache.infos[completions[r].info].pbn = completions[r].pbn
                    /\ cache.infos[completions[r].info].busy > 0
          /\ \A i \in Slots : \A r \in SeqRange(cache.infos[i].waiting) :
                completions[r].pbn = cache.infos[i].pbn)
    /\ [][\A i \in Slots :
             /\ (/\ cache.infos[i].pbn # "NO_PAGE"
                 /\ cache'.infos[i].pbn \notin {cache.infos[i].pbn, "NO_PAGE"})
                => /\ cache.infos[i].busy
                         = Cardinality(HoldersOf(completions, i))
                   /\ \A r \in HoldersOf(completions, i) :
                         completions'[r].phase = "idle"
                   /\ cache.infos[i].waiting = <<>>
                   /\ ~is_dirty(cache.infos[i])
                   /\ ~is_incoming(cache.infos[i])
                   /\ cache.infos[i].io = "none" \/ WriteOfPageEnds(i)
             /\ (/\ cache.infos[i].pbn # "NO_PAGE"
                 /\ cache'.infos[i].pbn = "NO_PAGE")
                => /\ PageReadError(i)
                   /\ cache.infos[i].busy = 0
                   /\ \A r \in SeqRange(cache.infos[i].waiting) :
                         completions'[r].phase = "idle"
             /\ (/\ cache.infos[i].write_status = "WRITE_STATUS_DISCARD"
                 /\ cache.infos[i].busy > 0 \/ cache.infos[i].waiting # <<>>
                 /\ WriteOfPageEnds(i))
                => /\ cache'.infos[i].pbn = cache.infos[i].pbn
                   /\ is_valid(cache'.infos[i])
                   /\ is_present(cache'.infos[i]) =>
                         cache'.infos[i].busy
                            = cache.infos[i].busy + Len(cache.infos[i].waiting)
       ]_vars

\* The write of a page for discard has ended with the page held: the page
\* is resident and still held.
C26_Witness ==
    \E i \in Slots :
        /\ history.discard_end = i
        /\ cache.infos[i].state = "PS_RESIDENT"
        /\ cache.infos[i].busy > 0


\* The slots whose page is being read from the block pbn.
LoadsOf(pbn) ==
    {i \in Slots : cache.infos[i].pbn = pbn /\ cache.infos[i].io = "reading"}

\* C27 (as stated): no two slots have the same PBN; the page map has, for
\* every PBN, the slot which has that PBN, and nothing for a PBN no slot
\* has; and at most one read of a PBN is in flight.
C27_Original_OneSlotAndOneLoadPerPbn ==
    /\ \A i, j \in Slots :
          (i # j /\ cache.infos[i].pbn = cache.infos[j].pbn)
             => cache.infos[i].pbn = "NO_PAGE"
    /\ \A pbn \in Pbns, i \in Slots :
          cache.page_map[pbn] = i <=> cache.infos[i].pbn = pbn
    /\ \A pbn \in Pbns :
          cache.page_map[pbn] = 0 <=> (\A i \in Slots : cache.infos[i].pbn # pbn)
    /\ \A pbn \in Pbns : Cardinality(LoadsOf(pbn)) <= 1


\* The request of r has been submitted and neither its callback nor its
\* error handler has been invoked.
Pending(r) == completions[r].phase \in {"waiting_page", "waiting_free"}

\* C24 (as stated): every request submitted to get_vdo_page which has to
\* wait, for a page in I/O or for a free page, is answered in the end, by
\* its callback (the page is granted) or by its error handler, when every
\* granted page is released in the end and every read issued ends.
C24_Original_EveryRequestIsAnswered ==
    \A r \in Requesters : Pending(r) ~> ~Pending(r)


\* The data_vios which hold the logical block lock of the lbn.
LockHolders(lbn) ==
    {d \in LockVios : /\ logical_zone.vios[d].locked
                      /\ logical_zone.vios[d].lbn = lbn}

\* The waiters of the data_vio's lock, oldest first.
LockWaiters(d) ==
    WaitersOf(logical_zone.vios[d].waiters, logical_zone.next_waiter)

\* C28: at most one data_vio holds the logical block lock of an lbn, and it
\* is the data_vio the lock map has for the lbn (the map has none when no
\* data_vio holds the lock); the data_vios at work on their requests are
\* the lock holders, and a data_vio which waits waits in the queue of the
\* holder of the lock of its lbn.
C28_OneHolderPerLbn ==
    /\ \A lbn \in DOMAIN logical_zone.lbn_lock_map :
          /\ Cardinality(LockHolders(lbn)) <= 1
          /\ LockHolders(lbn) = {d \in LockVios : logical_zone.lbn_lock_map[lbn] = d}
    /\ \A d \in LockVios :
          /\ logical_zone.vios[d].locked <=> logical_zone.vios[d].phase = "launched"
          /\ logical_zone.vios[d].locked =>
                logical_zone.vios[d].lbn \in DOMAIN logical_zone.lbn_lock_map
          /\ logical_zone.vios[d].phase = "waiting" =>
                \E h \in LockHolders(logical_zone.vios[d].lbn) :
                    d \in SeqRange(LockWaiters(h))
          /\ logical_zone.vios[d].result # "UDS_ASSERTION_FAILED"

\* The lock of an lbn has been handed by its holder to the oldest of two
\* waiters, which holds it now while the other waits for it.
C28_Witness ==
    \E d \in LockVios, lbn \in DOMAIN logical_zone.lbn_lock_map :
        /\ logical_zone.released.by # NULL
        /\ Len(logical_zone.released.waiters) = 2
        /\ d = logical_zone.released.waiters[1]
        /\ LockHolders(lbn) = {d}
        /\ logical_zone.lbn_lock_map[lbn] = d
        /\ LockWaiters(d) = <<logical_zone.released.waiters[2]>>


\* The data_vio's request ends in this step and its lock is released.
ReleasedNow(d) ==
    /\ logical_zone.vios[d].phase \in {"launched", "finished"}
    /\ logical_zone'.vios[d].phase = "free"

\* The waiters of the data_vio's lock after the step, oldest first.
LockWaitersAfter(d) ==
    WaitersOf(logical_zone'.vios[d].waiters, logical_zone'.next_waiter)

\* C29: when a data_vio releases a lock which has waiters, the oldest waiter
\* is registered for the lbn, holds the lock and is launched; the other
\* waiters wait in the new holder's queue in the order they had, none
\* launched; the data_vio which released keeps neither lock nor waiters.
\* With no waiters the lbn leaves the lock map.  No request is launched
\* twice, every data_vio which waits is in exactly one queue, once, and the
\* queues hold only data_vios which wait.
C29_LockPassesToOldestWaiter ==
    /\ [][\A d \in LockVios :
             ReleasedNow(d) =>
                LET waiters == LockWaiters(d)
                    lbn == logical_zone.vios[d].lbn
                IN  /\ ~logical_zone'.vios[d].locked
                    /\ logical_zone'.vios[d].waiters = EmptyQueue
                    /\ (waiters = <<>> /\ logical_zone.vios[d].locked)
                          => logical_zone'.lbn_lock_map[lbn] = NULL
                    /\ (waiters = <<>> /\ ~logical_zone.vios[d].locked)
                          => logical_zone'.lbn_lock_map
                                = logical_zone.lbn_lock_map
                    /\ waiters # <<>>
                          => /\ logical_zone'.lbn_lock_map[lbn] = Head(waiters)
                             /\ logical_zone'.vios[Head(waiters)].locked
                             /\ logical_zone'.vios[Head(waiters)].phase = "launched"
                             /\ logical_zone'.vios[Head(waiters)].launches = 1
                             /\ LockWaitersAfter(Head(waiters)) = Tail(waiters)
                             /\ \A w \in SeqRange(Tail(waiters)) :
                                   /\ logical_zone'.vios[w].phase = "waiting"
                                   /\ logical_zone'.vios[w].launches = 0
       ]_vars
    /\ [](\A d \in LockVios :
             /\ logical_zone.vios[d].launches <= 1
             /\ logical_zone.vios[d].waiters.queue_length = Len(LockWaiters(d))
             /\ \A k, m \in DOMAIN LockWaiters(d) :
                   LockWaiters(d)[k] = LockWaiters(d)[m] => k = m
             /\ \A w \in SeqRange(LockWaiters(d)) :
                   logical_zone.vios[w].phase = "waiting"
             /\ logical_zone.vios[d].phase = "waiting" <=>
                   Cardinality({h \in LockVios : d \in SeqRange(LockWaiters(h))}) = 1
             /\ logical_zone.vios[d].phase # "waiting" =>
                   \A h \in LockVios : d \notin SeqRange(LockWaiters(h)))

\* A data_vio has released a lock with two waiters: the older holds the
\* lock and the younger waits for it.
C29_Witness ==
    /\ logical_zone.released.by # NULL
    /\ Len(logical_zone.released.waiters) = 2
    /\ logical_zone.vios[logical_zone.released.by].phase = "free"
    /\ logical_zone.vios[logical_zone.released.waiters[1]].launches = 1
    /\ logical_zone.vios[logical_zone.released.waiters[2]].phase = "waiting"

(***************************************************************************)
(* C31: after every operation of the packer (attempt packing, flush,       *)
(* drain, removal of a lock holder, and the others of NextPacker) the list *)
(* of input bins is in ascending order of free_space.                      *)
(***************************************************************************)
C31_BinsSortedByFreeSpace ==
    \A i \in 1 .. (Len(packer.order) - 1) :
        packer.bins[packer.order[i]].free_space
            <= packer.bins[packer.order[i + 1]].free_space

\* The list has been reordered: a bin with less free space than the bin made
\* before it is ahead of it, and both hold data_vios.
C31_Witness ==
    /\ C31_BinsSortedByFreeSpace
    /\ \E i \in 1 .. (Len(packer.order) - 1) :
          /\ packer.order[i] > packer.order[i + 1]
          /\ packer.bins[packer.order[i]].free_space
                 < packer.bins[packer.order[i + 1]].free_space
          /\ packer.bins[packer.order[i + 1]].incoming # <<>>

(***************************************************************************)
(* C32: for every input bin, free_space is bin_data_size minus the sum of  *)
(* the compressed sizes of the data_vios in the bin and is not negative,   *)
(* the bin holds at most max_slots data_vios, and in every batch handed to *)
(* a compressed write the fragments fit in the data area of the block.     *)
(***************************************************************************)
RECURSIVE FragmentBytes(_)
FragmentBytes(incoming) ==
    IF incoming = <<>>
    THEN 0
    ELSE data_vios[Head(incoming)].compression.size
             + FragmentBytes(Tail(incoming))

C32_FreeSpaceIsExact ==
    /\ \A b \in BinIds :
          /\ packer.bins[b].free_space
                 = packer.bin_data_size
                       - FragmentBytes(packer.bins[b].incoming)
          /\ packer.bins[b].free_space >= 0
          /\ Len(packer.bins[b].incoming) <= packer.max_slots
    /\ \A agent \in DataVios :
          data_vios[agent].where = "writing"
              => /\ FragmentBytes(BatchOf(agent)) <= packer.bin_data_size
                 /\ Len(BatchOf(agent)) <= packer.max_slots

\* A data_vio which fitted in no bin has taken the place of the batch of the
\* fullest bin: the bin was written in the last step and holds the data_vio.
C32_Witness ==
    /\ packer.written # <<>>
    /\ \E b \in BinIds :
          /\ packer.bins[b].incoming # <<>>
          /\ packer.bins[b].free_space < packer.bin_data_size
    /\ \A b \in BinIds : packer.bins[b].incoming # <<>>

(***************************************************************************)
(* C33: when vdo_attempt_packing is called while the packer is not in      *)
(* normal operation, or for a data_vio whose flush generation is older     *)
(* than the packer's, the data_vio is put in no bin: it leaves the call on *)
(* the write path after compression, not compressed, and the bins are as   *)
(* they were.                                                              *)
(***************************************************************************)
PackingDisallowed(generation) ==
    \/ ~vdo_is_state_normal(packer.state)
    \/ generation < packer.flush_generation

C33_DisallowedPackingContinues ==
    [][\A d \in DataVios, size \in 1 .. MaxFragmentSize,
          generation \in 0 .. MaxGeneration :
           (AttemptPacking(d, size, generation)
                /\ PackingDisallowed(generation))
               => /\ data_vios'[d].where = "continued"
                  /\ data_vios'[d].compression.bin = NoBin
                  /\ data_vios'[d].state.status = "VIO_POST_PACKER"
                  /\ ~vdo_is_state_compressed(data_vios'[d].new_mapped.state)
                  /\ packer'.bins = packer.bins
                  /\ packer'.order = packer.order
                  /\ packer'.written = <<>>]_vars

\* A data_vio of an old flush generation has just been turned away by a
\* packer in normal operation which had room for it.
C33_Witness ==
    /\ packer.refused # NoDataVio
    /\ vdo_is_state_normal(packer.state)
    /\ packer.flush_generation > 0
    /\ data_vios[packer.refused].where = "continued"
    /\ ~data_vios[packer.refused].state.may_not_compress
    /\ \E b \in BinIds :
          packer.bins[b].free_space
              >= data_vios[packer.refused].compression.size

(***************************************************************************)
(* C34: the packer is quiescent after a drain only with every input bin    *)
(* and the canceled bin empty, and a drain which has started finishes when *)
(* every canceled data_vio is removed from the packer by the data_vio      *)
(* which canceled it.                                                      *)
(***************************************************************************)
AllBinsEmpty ==
    \A b \in BinIds \cup {CanceledBin} : packer.bins[b].incoming = <<>>

C34_DrainFinishesWithEmptyBins ==
    /\ [](is_vdo_state_quiescent(packer.state)
              => /\ AllBinsEmpty
                 /\ \A d \in DataVios :
                       data_vios[d].compression.bin = NoBin)
    /\ (is_vdo_state_draining(packer.state)
            ~> is_vdo_state_quiescent(packer.state))

\* A drain has started and waits: the input bins have been written out and
\* the canceled bin holds a data_vio whose remover is on its way.
C34_Witness ==
    /\ is_vdo_state_draining(packer.state)
    /\ packer.bins[CanceledBin].incoming # <<>>
    /\ \A b \in BinIds : packer.bins[b].incoming = <<>>
    /\ \A d \in DataVios :
          data_vios[d].compression.bin = CanceledBin
              => data_vios[d].remover_launched

(***************************************************************************)
(* C35: when finish_compressed_write has run for a compressed write, every *)
(* client of the batch was released before the agent, in the order of the  *)
(* batch, and each data_vio of the batch is mapped to the block which was  *)
(* written, in the compressed state of its slot, with a share of the PBN   *)
(* lock of that block.                                                     *)
(***************************************************************************)
C35_ClientsReleasedBeforeAgent ==
    packer.released # <<>>
        => LET agent == packer.released[Len(packer.released)]
               written_to == data_vios[agent].allocation
           IN  /\ packer.released
                      = Clients(PackerStart, agent) \o <<agent>>
               /\ \A d \in {packer.released[i] : i \in DOMAIN packer.released} :
                     /\ data_vios[d].new_mapped
                            = [pbn |-> written_to,
                               state |-> vdo_get_state_for_slot(
                                   data_vios[d].compression.slot)]
                     /\ data_vios[d].shared_lock = written_to
                     /\ data_vios[d].where = "continued"

\* A compressed write of three data_vios has just finished.
C35_Witness ==
    /\ Len(packer.released) = 3
    /\ \A d \in DataVios : data_vios[d].shared_lock # NULL

(***************************************************************************)
(* C36 as claimed: when findVolumeChapterBoundariesImpl returns            *)
(* UDS_SUCCESS for a volume of at least one chapter, it has stored into    *)
(* both outputs, and each of them is the chapter number of a readable      *)
(* chapter, whether or not the first probe fails or chapter 0 is           *)
(* unreadable.                                                             *)
(***************************************************************************)
SearchSucceeded ==
    /\ search.pc = "done"
    /\ search.result = "UDS_SUCCESS"

C36_Original_SuccessAssignsBoundaries ==
    SearchSucceeded
        => /\ search.assigned
           /\ search.lowestVCN \in ReadableVcns
           /\ search.highestVCN \in ReadableVcns

(***************************************************************************)
(* C37 as claimed: when vdo_get_compressed_block_fragment returns          *)
(* VDO_SUCCESS, the offset it returns is the size of the header plus the   *)
(* sum of the sizes of the lower slots and the fragment lies in the data   *)
(* area of the block; a header whose sizes place the fragment of the slot  *)
(* elsewhere is rejected with VDO_INVALID_FRAGMENT, whatever the sizes.    *)
(***************************************************************************)
RECURSIVE SumOfSizes(_, _)
SumOfSizes(sizes, slot) ==
    IF slot <= 0 THEN 0 ELSE sizes[slot - 1] + SumOfSizes(sizes, slot - 1)

\* Where the header places the fragment of the slot of the mapping state.
PlacedOffset ==
    CompressedBlockHeaderSize
        + SumOfSizes(compressed_fragment.header.sizes,
                     vdo_get_slot_from_state(
                         compressed_fragment.mapping_state))

C37_Original_FragmentInsideDataArea ==
    (/\ compressed_fragment.pc = "done"
     /\ compressed_fragment.out.result = "VDO_SUCCESS")
        => /\ compressed_fragment.out.fragment_offset = PlacedOffset
           /\ compressed_fragment.out.fragment_offset
                  >= CompressedBlockHeaderSize
           /\ compressed_fragment.out.fragment_offset
                  + compressed_fragment.out.fragment_size
                  <= FragmentBlockSize

(***************************************************************************)
(* C38: a resume starts the operations of its phases in the fixed order    *)
(* super block, read-only entry, slab depot, recovery journal, block map,  *)
(* logical zones, packer, flusher, each one after the one before it has    *)
(* finished; an error of one of them does not keep the later ones from     *)
(* being started; the operation finishes with the first error; and         *)
(* perform_vdo_resume returns VDO_SUCCESS when that error is VDO_READ_ONLY.*)
(***************************************************************************)
IsPrefix(p, q) == Len(p) <= Len(q) /\ p = SubSeq(q, 1, Len(p))

RECURSIVE FirstError(_)
FirstError(results) ==
    IF results = <<>>
    THEN "VDO_SUCCESS"
    ELSE IF Head(results) # "VDO_SUCCESS"
    THEN Head(results)
    ELSE FirstError(Tail(results))

\* The operations a resume starts: the super block is saved only when the
\* VDO was clean or new.
ResumeOrder(r) ==
    IF r.started # <<>> /\ r.started[1] = "save_vdo_components"
    THEN ResumeOperations
    ELSE Tail(ResumeOperations)

\* The resume got past start_vdo_resuming.
ResumeStarted ==
    resume.completion.result # "VDO_INVALID_ADMIN_STATE"

C38_ResumeRunsEveryPhaseInOrder ==
    resume.pc \in {"resuming", "done"}
        => /\ IsPrefix(resume.started, ResumeOrder(resume))
           /\ resume.pending # "none"
                  => /\ resume.started # <<>>
                     /\ resume.pending = resume.started[Len(resume.started)]
                     /\ Len(resume.results) = resume.phase - 1
           /\ resume.pc = "resuming"
                  => resume.completion.result = FirstError(resume.results)
           /\ (resume.pc = "done" /\ ResumeStarted)
                  => /\ resume.started = ResumeOrder(resume)
                     /\ resume.phase = RESUME_PHASE_END + 1
                     /\ resume.completion.result = FirstError(resume.results)
                     /\ resume.admin_state
                            = "VDO_ADMIN_STATE_NORMAL_OPERATION"
           /\ resume.pc = "done"
                  => resume.returned
                         = (IF resume.completion.result = "VDO_READ_ONLY"
                            THEN "VDO_SUCCESS"
                            ELSE resume.completion.result)

\* A resume has finished in which the slab depot failed with VDO_READ_ONLY
\* and the packer with another error after it: every operation was started
\* and the caller was told of success.
C38_Witness ==
    /\ resume.pc = "done"
    /\ resume.started = ResumeOperations
    /\ resume.results[3] = "VDO_READ_ONLY"
    /\ resume.results[7] = "VDO_IO_ERROR"
    /\ resume.completion.result = "VDO_READ_ONLY"
    /\ resume.returned = "VDO_SUCCESS"


(***************************************************************************)
(* C39 as stated: in a grow-physical operation the new slabs are put into  *)
(* use only after the journal and slab summary have been copied and the    *)
(* components with the new size saved, a failing phase ends the operation  *)
(* in read-only mode, and a perform request for a size other than the      *)
(* prepared one changes nothing and fails with VDO_PARAMETER_MISMATCH.     *)
(* The last part as a step property: a request for another size than the   *)
(* one the layout is prepared for returns VDO_PARAMETER_MISMATCH and       *)
(* leaves the layout, the depot and the sizes as they were.                *)
(***************************************************************************)
GrowOperations ==
    <<"copy_RECOVERY_JOURNAL_PARTITION", "copy_SLAB_SUMMARY_PARTITION",
      "save_vdo_components", "vdo_use_new_slabs">>

\* The step is a perform request for a size the layout is not prepared for.
RequestForUnpreparedSize ==
    /\ grow.pc = "prepared"
    /\ grow'.pc # "prepared"
    /\ grow'.requested # get_next_vdo_layout_size(grow.layout)

\* The step grows nothing, starts no phase and leaves the VDO writable if it
\* was.
NothingGrown ==
    /\ grow'.physical_blocks = grow.physical_blocks
    /\ grow'.saved_physical_blocks = grow.saved_physical_blocks
    /\ grow'.layout.size = grow.layout.size
    /\ grow'.depot.size = grow.depot.size
    /\ grow'.copied = grow.copied
    /\ grow'.admin_state = grow.admin_state
    /\ grow'.started = <<>>
    /\ notifier' = notifier

C39_Original_OtherSizeChangesNothing ==
    [][RequestForUnpreparedSize =>
          /\ grow'.returned = "VDO_PARAMETER_MISMATCH"
          /\ grow'.layout = grow.layout
          /\ grow'.depot = grow.depot
          /\ NothingGrown]_vars

\* The new slabs are put into use only after both partitions are copied and
\* the super block holds the size asked for.
SlabsUsedAfterCopyAndSave ==
    (grow.pc # "idle" /\ "vdo_use_new_slabs" \in SeqRange(grow.started)) =>
        /\ {"RECOVERY_JOURNAL_PARTITION", "SLAB_SUMMARY_PARTITION"}
               \subseteq grow.copied
        /\ grow.saved_physical_blocks = grow.requested
        /\ grow.physical_blocks = grow.requested
        /\ IsPrefix(grow.started, GrowOperations)

\* The operation which failed is the last one started, and the VDO is in
\* read-only mode for its error.
FailedPhaseIsLast ==
    grow.pc # "idle" =>
        \A i \in DOMAIN grow.results :
            grow.results[i] # "VDO_SUCCESS" =>
                /\ Len(grow.started) = i
                /\ grow.pending = "none"
                /\ notifier = [read_only |-> TRUE, error |-> grow.results[i]]
                /\ grow.depot.new_slabs # "in_use"

(***************************************************************************)
(* C39, amended: the new slabs are put into use only after the journal and *)
(* the slab summary have been copied and the components with the new size  *)
(* saved; when the operation of a phase fails no later phase runs and the  *)
(* VDO enters read-only mode; a perform request for a size other than the  *)
(* prepared one grows nothing and starts no phase: for the current size it *)
(* returns VDO_SUCCESS and leaves the prepared growth as it is, for any    *)
(* other size it fails with VDO_PARAMETER_MISMATCH and the prepared growth *)
(* is given up.                                                            *)
(***************************************************************************)
C39_GrowInOrderOrNotAtAll ==
    /\ []SlabsUsedAfterCopyAndSave
    /\ []FailedPhaseIsLast
    /\ [][RequestForUnpreparedSize =>
             /\ NothingGrown
             /\ IF grow'.requested = grow.physical_blocks
                THEN /\ grow'.returned = "VDO_SUCCESS"
                     /\ grow'.layout = grow.layout
                     /\ grow'.depot = grow.depot
                ELSE /\ grow'.returned = "VDO_PARAMETER_MISMATCH"
                     /\ grow'.layout = finish_vdo_layout_growth(grow.layout)
                     /\ grow'.depot = vdo_abandon_new_slabs(grow.depot)]_vars

\* A prepared VDO has grown: every phase has run and the new slabs are in
\* use.
C39_Witness ==
    /\ grow.pc = "done"
    /\ grow.returned = "VDO_SUCCESS"
    /\ grow.physical_blocks > OldPhysicalBlocks
    /\ grow.depot.new_slabs = "in_use"
    /\ grow.started = GrowOperations


(***************************************************************************)
(* C40 as stated: when a page load fails or the loaded page is invalid     *)
(* during normal operation, the VDO enters read-only mode, every requester *)
(* waiting on that page receives the error, and the slot returns to the    *)
(* free state with no PBN; in rebuild mode a failed read instead yields a  *)
(* zero-filled page that is delivered to the waiters as a successful load. *)
(***************************************************************************)
\* The step is the end of the read of a page.
LoadEnded == history'.load_end.slot # 0

\* The read failed.
LoadFailed == history'.load_end.result # "VDO_SUCCESS"

\* The error of the load which ended: the read's, or the read hook's.
LoadError ==
    IF LoadFailed THEN history'.load_end.result ELSE "VDO_BAD_PAGE"

\* The VDO is in read-only mode, for the error of the load if it was not
\* before; every requester which waited for the page has been given the
\* error and holds no page; the slot is free and has no PBN.
LoadErrorHandled(i) ==
    /\ notifier' = vdo_enter_read_only_mode(notifier, LoadError)
    /\ notifier'.read_only
    /\ \A r \in SeqRange(cache.infos[i].waiting) :
          /\ <<r, LoadError>> \in history'.load_error
          /\ completions'[r] = IdleCompletion
    /\ cache'.infos[i].state = "PS_FREE"
    /\ cache'.infos[i].pbn = "NO_PAGE"
    /\ cache'.infos[i].waiting = <<>>
    /\ cache'.page_map[cache.infos[i].pbn] = 0
    /\ i \in SeqRange(cache'.free_list)

\* The page is resident in its slot and every requester which waited for it
\* has it; nobody has been given an error and the VDO is as it was.
LoadDelivered(i) ==
    /\ notifier' = notifier
    /\ history'.load_error = {}
    /\ cache'.infos[i].state = "PS_RESIDENT"
    /\ cache'.infos[i].pbn = cache.infos[i].pbn
    /\ cache'.infos[i].waiting = <<>>
    /\ cache'.infos[i].busy = Len(cache.infos[i].waiting)
    /\ \A r \in SeqRange(cache.infos[i].waiting) :
          /\ completions'[r].phase = "ready"
          /\ completions'[r].info = i

C40_Original_InvalidPageIsLoadError ==
    [][LoadEnded =>
          LET i == history'.load_end.slot
          IN  IF cache.rebuilding
              THEN LoadFailed =>
                       /\ LoadDelivered(i)
                       /\ cache'.infos[i].initialized = "ZEROED"
              ELSE (\/ LoadFailed
                    \/ history'.load_end.validity
                           # "VDO_BLOCK_MAP_PAGE_VALID")
                       => LoadErrorHandled(i)]_vars

(***************************************************************************)
(* C40, amended: when a page load fails or the loaded page is the page of  *)
(* another block (VDO_BAD_PAGE) during normal operation, the VDO enters    *)
(* read-only mode, every requester waiting on that page receives the       *)
(* error, and the slot returns to the free state with no PBN, while a      *)
(* loaded block which is not an initialized page is formatted and          *)
(* delivered to the waiters as a successful load; in rebuild mode a failed *)
(* read instead yields a zero-filled page that is delivered to the waiters *)
(* as a successful load.                                                   *)
(***************************************************************************)
C40_LoadErrorFreesSlotOrZeroFills ==
    [][LoadEnded =>
          LET i == history'.load_end.slot
              bad == history'.load_end.validity = "VDO_BLOCK_MAP_PAGE_BAD"
          IN  IF cache.rebuilding
              THEN /\ LoadDelivered(i)
                   /\ (LoadFailed \/ bad)
                          <=> cache'.infos[i].initialized = "ZEROED"
              ELSE IF LoadFailed \/ bad
              THEN LoadErrorHandled(i)
              ELSE /\ LoadDelivered(i)
                   /\ cache'.infos[i].initialized = "AS_READ"]_vars

\* A failed read in rebuild mode has given two waiters a zero-filled page.
C40_Witness ==
    /\ cache.rebuilding
    /\ history.load_end.result = "VDO_IO_ERROR"
    /\ \E i \in Slots :
          /\ history.load_end.slot = i
          /\ cache.infos[i].initialized = "ZEROED"
          /\ cache.infos[i].busy = 2

====
